---- MODULE Spec2Model ----
(***************************************************************************)
(* Inference gateway of vllama: the HTTP route layer that serialises       *)
(* access to one engine client behind an async mutex and folds the         *)
(* engine's chunk stream into dialect-specific SSE frames.                 *)
(*                                                                         *)
(* SpecGateway  vllama-server/src/api.rs: generate, chat,                  *)
(*              openai_chat_completions over ServerState.engine            *)
(* SpecLoad     hyperllama-server/src/api.rs: the same three handlers with *)
(*              lazy model loading through MaxEngine                       *)
(* SpecSse      the engine clients' generate_stream: transport byte chunks *)
(*              to stream items, folded into frames by the gateway         *)
(* SpecServe    vllama-cli/src/commands/serve.rs: run(), the supervisor of *)
(*              the vLLM process group (unix build)                        *)
(* SpecEngine   the engine clients HttpEngineClient, MaxEngine and         *)
(*              VllmOpenAIEngine called one operation at a time            *)
(***************************************************************************)
EXTENDS Integers, Sequences, FiniteSets, TLC

(***************************************************************************)
(* Bounds of the model.                                                    *)
(***************************************************************************)
\* number of concurrent inbound requests
NumReqs == 2
\* upstream stream items (chunks) delivered over the run, all streams together
MaxChunks == 2
\* `data:` lines the backend sends in one streamed response
MaxLines == 2
\* places where the transport cuts the backend's bytes into chunks
MaxCuts == 2
\* successful load_model calls of one engine client
MaxLoads == 2
MaxInits == 2
MaxMsgs == 2
\* polls of the pull stream after its progress channel was closed
MaxClosedPolls == 2

Reqs == 1..NumReqs
Texts == {"a", "b"}
Dialects == {"generate", "chat", "openai"}
\* owner value of a free tokio Mutex
NoOwner == 0
\* serde's Option::None
NoneVal == "None"

VARIABLES
    \* ---- vllama-server gateway (ServerState + one task per request) ----
    engine_lock,   \* holder of ServerState.engine (tokio::sync::Mutex), NoOwner when free
    pc,            \* position of each request task
    dialect,       \* route of each request
    stream,        \* req.stream of each request
    upstream,      \* per request: what s.next() has returned so far, in order
    frames,        \* per request: SSE events handed to the caller, in order
    count,         \* per request: the unfold state's chunk counter
    done,          \* per request: the unfold state's done flag
    response,      \* per request: the non-SSE HTTP response, NoResponse until sent
    engine_error,  \* per request: how the engine call failed, "none" if it did not
    \* ---- hyperllama-server gateway with lazy model loading ----
    hl_lock,       \* holder of ServerState.engine, NoOwner when free
    hl_pc,         \* position of each request task
    hl_req,        \* per request: [name, dialect, stream] of the inbound request
    hl_handle,     \* per request: the handle the handler resolved, NoHandle before
    hl_response,   \* per request: the HTTP response, HlNoResponse until sent
    loaded_models, \* ServerState.loaded_models: name -> handle, NoHandle when absent
    engine_models, \* MaxEngine.loaded_models: handle -> model id
    next_handle,   \* MaxEngine.next_handle
    load_calls,    \* per name: POST /models/load requests the backend has answered
    \* ---- one streamed response seen from the engine client ----
    sse_engine,    \* the engine client that reads the response: "http" or "openai"
    sse_sent,      \* the text fragments the backend wrote, one per `data:` line
    sse_wire,      \* transport byte chunks not read yet, each a sequence of byte runs
    sse_frames,    \* SSE events handed to the caller, in order
    sse_state,     \* "streaming", "done" (terminal frame sent) or "failed"
    \* ---- vllama serve: run() and the backend process group ----
    srv_cfg,       \* arguments of run(): [no_vllm, has_model, output_mode]
    srv_pc,        \* position of run()
    srv_result,    \* what run() returned: "none" while running, "ok" or the error
    vllm_process,  \* TRUE once start_vllm_server has returned a Child
    group_alive,   \* TRUE while a process of the spawned group is running
    srv_signals,   \* signals sent to the process group, in order
    child_wait,    \* child.wait(): "none" before the call, then "reaped" or "failed"
    attempts,      \* health probes made by wait_for_vllm_ready
    listening,     \* TRUE once Server::run has bound its listener
    kill_return,   \* caller of the running kill_process_tree: "gate" or "shutdown"
    health_seen,   \* TRUE once wait_for_vllm_ready has returned true
    \* ---- one engine client, its calls made one after the other ----
    ec_kind,           \* the implementation: "http", "max" or "openai"
    ec_loaded_models,  \* the client's loaded_models: handle -> model id
    ec_next_handle,    \* the client's next_handle
    ec_input,          \* the last call's arguments and what the backend did
    ec_last,           \* the last call: operation, result, and the state before it
    ec_stream,         \* items the last generate_stream has yielded, and its state
    ec_minted,         \* history: the handles next_model_handle has returned, in order
    \* engine orchestrator
    orc_kind,          \* which crate's EngineOrchestrator this is
    orc_hardware,      \* the hardware field, fixed by new()
    orc_engines,       \* the retained engines, in order
    orc_inits,         \* how many times initialize() has run
    orc_last,          \* the last call: operation, list before it, result
    \* chat prompt rendering
    chat_req,          \* the request: server, route, stream, model name, messages
    chat_prompt,       \* what the handler hands to the engine for it
    \* serve settings
    cfg_sources,       \* what the --port flag, ./vllama.toml and the user config say
    cfg_state,         \* position in main(), the loaded Config's port, the port served
    \* ---- vllama-server /api/pull ----
    pl_req,  \* per pull request: [name, stream] of the inbound PullApiRequest
    pl_run,  \* per pull request: position, download/load result, answer, progress channel, SSE frames
    pl_shared  \* ServerState of the pull handlers: engine mutex, LoadedModelsMap, engine handle counter, call counters

gwVars == <<engine_lock, pc, dialect, stream, upstream, frames, count, done, response,
            engine_error>>
hlVars == <<hl_lock, hl_pc, hl_req, hl_handle, hl_response,
            loaded_models, engine_models, next_handle, load_calls>>
sseVars == <<sse_engine, sse_sent, sse_wire, sse_frames, sse_state>>
srvVars == <<srv_cfg, srv_pc, srv_result, vllm_process, group_alive, srv_signals,
             child_wait, attempts, listening, kill_return, health_seen>>
ecVars == <<ec_kind, ec_loaded_models, ec_next_handle, ec_input, ec_last, ec_stream,
           ec_minted>>
orcVars == <<orc_kind, orc_hardware, orc_engines, orc_inits, orc_last>>
prVars == <<chat_req, chat_prompt>>
cfVars == <<cfg_sources, cfg_state>>
plVars == <<pl_req, pl_run, pl_shared>>
vars == <<gwVars, hlVars, sseVars, srvVars, ecVars, orcVars, prVars, cfVars, plVars>>

\* What an action of one component leaves alone.
OnlyGw == UNCHANGED <<hlVars, sseVars, srvVars, ecVars, orcVars, prVars, cfVars, plVars>>
OnlyHl == UNCHANGED <<gwVars, sseVars, srvVars, ecVars, orcVars, prVars, cfVars, plVars>>
OnlySse == UNCHANGED <<gwVars, hlVars, srvVars, ecVars, orcVars, prVars, cfVars, plVars>>
OnlySrv == UNCHANGED <<gwVars, hlVars, sseVars, ecVars, orcVars, prVars, cfVars, plVars>>
OnlyEc == UNCHANGED <<gwVars, hlVars, sseVars, srvVars, orcVars, prVars, cfVars, plVars>>
OnlyOrc == UNCHANGED <<gwVars, hlVars, sseVars, srvVars, ecVars, prVars, cfVars, plVars>>
OnlyPr == UNCHANGED <<gwVars, hlVars, sseVars, srvVars, ecVars, orcVars, cfVars, plVars>>
OnlyCf == UNCHANGED <<gwVars, hlVars, sseVars, srvVars, ecVars, orcVars, prVars, plVars>>
OnlyPl == UNCHANGED <<gwVars, hlVars, sseVars, srvVars, ecVars, orcVars, prVars, cfVars>>

(***************************************************************************)
(* Stream items and frames.                                                *)
(***************************************************************************)
OkItem(t) == [kind |-> "ok", text |-> t]
ErrItem == [kind |-> "err", text |-> ""]
EndItem == [kind |-> "end", text |-> ""]
\* A poll that yields no item (filter_map's None).
NoItem == [kind |-> "none", text |-> ""]
\* No HTTP response sent yet.
NoResponse == [status |-> 0, envelope |-> "none", done |-> FALSE, has_duration |-> FALSE, text |-> ""]

\* Frame for Some(Ok(resp)): the dialect's non-terminal chunk shape.
ChunkFrame(d, text) ==
    CASE d = "generate" ->
           [shape |-> "generate", text |-> text, done |-> FALSE,
            eval_count |-> NoneVal, finish_reason |-> NoneVal]
      [] d = "chat" ->
           [shape |-> "chat", text |-> text, done |-> FALSE,
            eval_count |-> NoneVal, finish_reason |-> NoneVal]
      [] d = "openai" ->
           [shape |-> "openai", text |-> text, done |-> FALSE,
            eval_count |-> NoneVal, finish_reason |-> NoneVal]

\* Mutant of FinalFrame: the last frame does not say it is the last.
FinalFrame_NotTerminal(d, n) ==
    [shape |-> d, text |-> "", done |-> FALSE,
     eval_count |-> n, finish_reason |-> NoneVal]

\* Frame for upstream None: the dialect's terminal shape.
FinalFrame(d, n) ==
    CASE d = "generate" ->
           [shape |-> "generate", text |-> "", done |-> TRUE,
            eval_count |-> n, finish_reason |-> NoneVal]
      [] d = "chat" ->
           [shape |-> "chat", text |-> "", done |-> TRUE,
            eval_count |-> n, finish_reason |-> NoneVal]
      [] d = "openai" ->
           [shape |-> "openai", text |-> NoneVal, done |-> FALSE,
            eval_count |-> NoneVal, finish_reason |-> "stop"]

\* A frame is terminal when it says done=true (Ollama) or finish_reason "stop" (OpenAI).
IsTerminal(f) == IF f.shape = "openai" THEN f.finish_reason = "stop" ELSE f.done

\* Error envelope of a failed engine call.
ErrorResponse(d) ==
    IF d = "openai"
    THEN [status |-> 500, envelope |-> "nested", done |-> FALSE, has_duration |-> FALSE, text |-> ""]
    ELSE [status |-> 500, envelope |-> "flat", done |-> FALSE, has_duration |-> FALSE, text |-> ""]

\* Mutant of OkResponse: the body leaves total_duration out.
OkResponse_NoDuration(d, text) ==
    [status |-> 200, envelope |-> d, done |-> (d # "openai"), has_duration |-> FALSE, text |-> text]

\* Body of a successful non-streaming call.
OkResponse(d, text) ==
    IF d = "openai"
    THEN [status |-> 200, envelope |-> "openai", done |-> FALSE, has_duration |-> FALSE, text |-> text]
    ELSE [status |-> 200, envelope |-> d, done |-> TRUE, has_duration |-> TRUE, text |-> text]

\* Body of GET /health: the static string "OK".
HealthResponse ==
    [status |-> 200, envelope |-> "text", done |-> FALSE, has_duration |-> FALSE, text |-> "OK"]

\* How a call of OpenAIClient fails: the request cannot be sent, the backend
\* answers a non-2xx status, or the body does not parse.
EngineFailures == {"transport", "status", "parse"}

\* The Error value the client builds for a failure: always ModelLoadFailed.
ErrorOf(failure) ==
    CASE failure = "transport" -> "ModelLoadFailed"
      [] failure = "status" -> "ModelLoadFailed"
      [] failure = "parse" -> "ModelLoadFailed"

\* Chunks delivered so far by all upstream streams.
RECURSIVE SumLen(_, _)
SumLen(f, S) ==
    IF S = {} THEN 0
    ELSE LET r == CHOOSE x \in S : TRUE
         IN Len(SelectSeq(f[r], LAMBDA it : it.kind = "ok")) + SumLen(f, S \ {r})

ChunksDelivered == SumLen(upstream, Reqs)

(***************************************************************************)
(* Init                                                                    *)
(***************************************************************************)
GwInit ==
    /\ engine_lock = NoOwner
    /\ pc = [r \in Reqs |-> "idle"]
    /\ dialect = [r \in Reqs |-> "generate"]
    /\ stream = [r \in Reqs |-> FALSE]
    /\ upstream = [r \in Reqs |-> <<>>]
    /\ frames = [r \in Reqs |-> <<>>]
    /\ count = [r \in Reqs |-> 0]
    /\ done = [r \in Reqs |-> FALSE]
    /\ response = [r \in Reqs |-> NoResponse]
    /\ engine_error = [r \in Reqs |-> "none"]

(***************************************************************************)
(* Actions of a request task.                                              *)
(***************************************************************************)
\* A request reaches its handler and runs up to state.engine.lock().await.
Arrive(r) ==
    /\ pc[r] = "idle"
    /\ \E d \in Dialects, s \in BOOLEAN :
         /\ dialect' = [dialect EXCEPT ![r] = d]
         /\ stream' = [stream EXCEPT ![r] = s]
    /\ pc' = [pc EXCEPT ![r] = "wait_lock"]
    /\ UNCHANGED <<engine_lock, upstream, frames, count, done, response>>
    /\ UNCHANGED engine_error
    /\ OnlyGw

\* Mutant of Health: the handler answers only once it has the engine mutex.
Health_TakesMutex(r) ==
    /\ pc[r] = "idle"
    /\ engine_lock = NoOwner
    /\ response' = [response EXCEPT ![r] = HealthResponse]
    /\ pc' = [pc EXCEPT ![r] = "health_ok"]
    /\ UNCHANGED <<engine_lock, dialect, stream, upstream, frames, count, done>>
    /\ UNCHANGED engine_error
    /\ OnlyGw

\* GET /health: the handler takes no state and returns "OK".
Health(r) ==
    /\ pc[r] = "idle"
    /\ response' = [response EXCEPT ![r] = HealthResponse]
    /\ pc' = [pc EXCEPT ![r] = "health_ok"]
    /\ UNCHANGED <<engine_lock, dialect, stream, upstream, frames, count, done>>
    /\ UNCHANGED engine_error
    /\ OnlyGw

\* Mutant of LockEngine: the engine is entered without waiting for the mutex.
LockEngine_NoMutex(r) ==
    /\ pc[r] = "wait_lock"
    /\ engine_lock' = r
    /\ pc' = [pc EXCEPT ![r] = "in_call"]
    /\ UNCHANGED <<dialect, stream, upstream, frames, count, done, response>>
    /\ UNCHANGED engine_error
    /\ OnlyGw

\* state.engine.lock().await completes; the handler issues its engine call.
LockEngine(r) ==
    /\ pc[r] = "wait_lock"
    /\ engine_lock = NoOwner
    /\ engine_lock' = r
    /\ pc' = [pc EXCEPT ![r] = "in_call"]
    /\ UNCHANGED <<dialect, stream, upstream, frames, count, done, response>>
    /\ UNCHANGED engine_error
    /\ OnlyGw

\* engine.generate / generate_chat_completion returns; the handler builds the
\* response and returns, dropping the guard.
NonStreamReturn(r) ==
    /\ pc[r] = "in_call"
    /\ ~stream[r]
    /\ \/ /\ \E t \in Texts : response' = [response EXCEPT ![r] = OkResponse(dialect[r], t)]
          /\ UNCHANGED engine_error
       \/ /\ response' = [response EXCEPT ![r] = ErrorResponse(dialect[r])]
          /\ \E f \in EngineFailures : engine_error' = [engine_error EXCEPT ![r] = f]
    /\ engine_lock' = NoOwner
    /\ pc' = [pc EXCEPT ![r] = "closed"]
    /\ UNCHANGED <<dialect, stream, upstream, frames, count, done>>
    /\ OnlyGw

\* engine.generate_stream returns Ok(stream): the handler wraps it in
\* stream::unfold, returns Sse::new(event_stream) and drops the guard.
StreamCallOk(r) ==
    /\ pc[r] = "in_call"
    /\ stream[r]
    /\ engine_lock' = NoOwner
    /\ pc' = [pc EXCEPT ![r] = "streaming"]
    /\ count' = [count EXCEPT ![r] = 0]
    /\ done' = [done EXCEPT ![r] = FALSE]
    /\ UNCHANGED <<dialect, stream, upstream, frames, response>>
    /\ UNCHANGED engine_error
    /\ OnlyGw

\* engine.generate_stream returns Err: 500 with the dialect's envelope.
StreamCallErr(r) ==
    /\ pc[r] = "in_call"
    /\ stream[r]
    /\ response' = [response EXCEPT ![r] = ErrorResponse(dialect[r])]
    /\ \E f \in EngineFailures : engine_error' = [engine_error EXCEPT ![r] = f]
    /\ engine_lock' = NoOwner
    /\ pc' = [pc EXCEPT ![r] = "closed"]
    /\ UNCHANGED <<dialect, stream, upstream, frames, count, done>>
    /\ OnlyGw

\* Mutant of StreamChunk: the newest frame overtakes the ones before it.
StreamChunk_Reorders(r) ==
    /\ pc[r] = "streaming"
    /\ ~done[r]
    /\ ChunksDelivered < MaxChunks
    /\ \E t \in Texts :
         /\ upstream' = [upstream EXCEPT ![r] = Append(@, OkItem(t))]
         /\ frames' = [frames EXCEPT ![r] = <<ChunkFrame(dialect[r], t)>> \o @]
    /\ count' = [count EXCEPT ![r] = @ + 1]
    /\ UNCHANGED <<engine_lock, pc, dialect, stream, done, response>>
    /\ UNCHANGED engine_error
    /\ OnlyGw

\* Mutant of StreamChunk: the closure is still polled after the response body
\* was dropped.
StreamChunk_PolledAfterDrop(r) ==
    /\ pc[r] \in {"streaming", "dropped"}
    /\ ~done[r]
    /\ ChunksDelivered < MaxChunks
    /\ \E t \in Texts :
         /\ upstream' = [upstream EXCEPT ![r] = Append(@, OkItem(t))]
         /\ frames' = [frames EXCEPT ![r] = Append(@, ChunkFrame(dialect[r], t))]
    /\ count' = [count EXCEPT ![r] = @ + 1]
    /\ UNCHANGED <<engine_lock, pc, dialect, stream, done, response>>
    /\ UNCHANGED engine_error
    /\ OnlyGw

\* One poll of the unfold closure with done = false and s.next() = Some(Ok(resp)).
StreamChunk(r) ==
    /\ pc[r] = "streaming"
    /\ ~done[r]
    /\ ChunksDelivered < MaxChunks
    /\ \E t \in Texts :
         /\ upstream' = [upstream EXCEPT ![r] = Append(@, OkItem(t))]
         /\ frames' = [frames EXCEPT ![r] = Append(@, ChunkFrame(dialect[r], t))]
    /\ count' = [count EXCEPT ![r] = @ + 1]
    /\ UNCHANGED <<engine_lock, pc, dialect, stream, done, response>>
    /\ UNCHANGED engine_error
    /\ OnlyGw

\* Mutant of StreamError: an upstream error is answered with the terminal frame.
StreamError_EmitsFinal(r) ==
    /\ pc[r] = "streaming"
    /\ ~done[r]
    /\ upstream' = [upstream EXCEPT ![r] = Append(@, ErrItem)]
    /\ frames' = [frames EXCEPT ![r] = Append(@, FinalFrame(dialect[r], count[r]))]
    /\ pc' = [pc EXCEPT ![r] = "closed"]
    /\ UNCHANGED <<engine_lock, dialect, stream, count, done, response>>
    /\ UNCHANGED engine_error
    /\ OnlyGw

\* One poll with s.next() = Some(Err(e)): the closure returns None, the SSE ends.
StreamError(r) ==
    /\ pc[r] = "streaming"
    /\ ~done[r]
    /\ upstream' = [upstream EXCEPT ![r] = Append(@, ErrItem)]
    /\ pc' = [pc EXCEPT ![r] = "closed"]
    /\ UNCHANGED <<engine_lock, dialect, stream, frames, count, done, response>>
    /\ UNCHANGED engine_error
    /\ OnlyGw

\* Mutant of StreamExhausted: the terminal frame counts itself.
StreamExhausted_CountsFinal(r) ==
    /\ pc[r] = "streaming"
    /\ ~done[r]
    /\ upstream' = [upstream EXCEPT ![r] = Append(@, EndItem)]
    /\ frames' = [frames EXCEPT ![r] = Append(@, FinalFrame(dialect[r], count[r] + 1))]
    /\ done' = [done EXCEPT ![r] = TRUE]
    /\ UNCHANGED <<engine_lock, pc, dialect, stream, count, response>>
    /\ UNCHANGED engine_error
    /\ OnlyGw

\* One poll with s.next() = None: the terminal frame, done := true.
StreamExhausted(r) ==
    /\ pc[r] = "streaming"
    /\ ~done[r]
    /\ upstream' = [upstream EXCEPT ![r] = Append(@, EndItem)]
    /\ frames' = [frames EXCEPT ![r] = Append(@, FinalFrame(dialect[r], count[r]))]
    /\ done' = [done EXCEPT ![r] = TRUE]
    /\ UNCHANGED <<engine_lock, pc, dialect, stream, count, response>>
    /\ UNCHANGED engine_error
    /\ OnlyGw

\* One poll with done = true: the closure returns None, the SSE ends.
StreamClose(r) ==
    /\ pc[r] = "streaming"
    /\ done[r]
    /\ pc' = [pc EXCEPT ![r] = "closed"]
    /\ UNCHANGED <<engine_lock, dialect, stream, upstream, frames, count, done, response>>
    /\ UNCHANGED engine_error
    /\ OnlyGw

\* The caller's connection closes while the SSE body is open: the body, and
\* with it the unfold state (s, model, count, done) that owns the upstream
\* stream, is dropped; the closure is never polled again.  The MutexGuard was
\* a local of the handler and is not part of the dropped state.
Disconnect(r) ==
    /\ pc[r] = "streaming"
    /\ pc' = [pc EXCEPT ![r] = "dropped"]
    /\ UNCHANGED <<engine_lock, dialect, stream, upstream, frames, count, done, response>>
    /\ UNCHANGED engine_error
    /\ OnlyGw

GwNext ==
    \E r \in Reqs :
        \/ Arrive(r)
        \/ Health(r)
        \/ LockEngine(r)
        \/ NonStreamReturn(r)
        \/ StreamCallOk(r)
        \/ StreamCallErr(r)
        \/ StreamChunk(r)
        \/ StreamError(r)
        \/ StreamExhausted(r)
        \/ StreamClose(r)
        \/ Disconnect(r)

(***************************************************************************)
(* hyperllama-server: handle resolution with lazy loading, then the engine *)
(* call.  MaxEngine mints handles and keeps handle -> model id.            *)
(***************************************************************************)
Names == {"m1", "m2"}
NoHandle == 0
LoadOutcomes == {"ok", "transport", "status", "parse"}

\* MaxEngine::get_model_id: a local lookup.
get_model_id(h) == IF h \in DOMAIN engine_models THEN engine_models[h] ELSE NoneVal

HlNoResponse == [status |-> 0, envelope |-> "none"]

\* Mutant of HlError: every dialect answers with the flat envelope.
HlError_AlwaysFlat(d, code) ==
    [status |-> code, envelope |-> "flat"]

\* Error envelope of the hyperllama handlers.
HlError(d, code) ==
    [status |-> code, envelope |-> IF d = "openai" THEN "nested" ELSE "flat"]

\* Successful answer of the hyperllama handlers.
HlOk(d, sse) ==
    [status |-> 200, envelope |-> IF sse THEN "sse" ELSE d]

HlInit ==
    /\ hl_lock = NoOwner
    /\ hl_pc = [r \in Reqs |-> "idle"]
    /\ hl_req = [r \in Reqs |-> [name |-> "m1", dialect |-> "generate", stream |-> FALSE]]
    /\ hl_handle = [r \in Reqs |-> NoHandle]
    /\ hl_response = [r \in Reqs |-> HlNoResponse]
    /\ loaded_models = [n \in Names |-> NoHandle]
    /\ engine_models = <<>>
    /\ next_handle = 1
    /\ load_calls = [n \in Names |-> 0]

\* The handler starts and runs state.loaded_models.get(&req.model): a hit
\* resolves the handle, a miss goes on to state.engine.lock().await.
HlArrive(r) ==
    /\ hl_pc[r] = "idle"
    /\ \E n \in Names, d \in Dialects, s \in BOOLEAN :
         /\ hl_req' = [hl_req EXCEPT ![r] = [name |-> n, dialect |-> d, stream |-> s]]
         /\ IF loaded_models[n] # NoHandle
            THEN /\ hl_handle' = [hl_handle EXCEPT ![r] = loaded_models[n]]
                 /\ hl_pc' = [hl_pc EXCEPT ![r] = "wait_id"]
            ELSE /\ hl_pc' = [hl_pc EXCEPT ![r] = "wait_load"]
                 /\ UNCHANGED hl_handle
    /\ UNCHANGED <<hl_lock, hl_response, loaded_models, engine_models, next_handle, load_calls>>
    /\ OnlyHl

\* The miss branch gets the mutex and calls engine.load_model, which POSTs
\* /models/load.
HlLockForLoad(r) ==
    /\ hl_pc[r] = "wait_load"
    /\ hl_lock = NoOwner
    /\ hl_lock' = r
    /\ hl_pc' = [hl_pc EXCEPT ![r] = "loading"]
    /\ UNCHANGED <<hl_req, hl_handle, hl_response, loaded_models, engine_models,
                   next_handle, load_calls>>
    /\ OnlyHl

\* Mutant of HlLoadReturn: the engine returns the handle without storing it.
HlLoadReturn_EngineForgets(r) ==
    /\ hl_pc[r] = "loading"
    /\ \E o \in LoadOutcomes :
         LET n == hl_req[r].name
             h == next_handle
         IN /\ load_calls' = [load_calls EXCEPT ![n] = IF o = "transport" THEN @ ELSE @ + 1]
            /\ IF o = "ok"
               THEN /\ next_handle' = next_handle + 1
                    /\ loaded_models' = [loaded_models EXCEPT ![n] = h]
                    /\ hl_handle' = [hl_handle EXCEPT ![r] = h]
                    /\ hl_pc' = [hl_pc EXCEPT ![r] = "wait_id"]
                    /\ UNCHANGED <<hl_response, engine_models>>
               ELSE /\ hl_response' = [hl_response EXCEPT ![r] = HlError(hl_req[r].dialect, 500)]
                    /\ hl_pc' = [hl_pc EXCEPT ![r] = "closed"]
                    /\ UNCHANGED <<next_handle, engine_models, loaded_models, hl_handle>>
    /\ hl_lock' = NoOwner
    /\ UNCHANGED hl_req
    /\ OnlyHl

\* Mutant of HlLoadReturn: a failed load removes the name's entry.
HlLoadReturn_EvictsOnError(r) ==
    /\ hl_pc[r] = "loading"
    /\ \E o \in LoadOutcomes :
         LET n == hl_req[r].name
             h == next_handle
         IN /\ load_calls' = [load_calls EXCEPT ![n] = IF o = "transport" THEN @ ELSE @ + 1]
            /\ IF o = "ok"
               THEN /\ next_handle' = next_handle + 1
                    /\ engine_models' = engine_models @@ (h :> n)
                    /\ loaded_models' = [loaded_models EXCEPT ![n] = h]
                    /\ hl_handle' = [hl_handle EXCEPT ![r] = h]
                    /\ hl_pc' = [hl_pc EXCEPT ![r] = "wait_id"]
                    /\ UNCHANGED hl_response
               ELSE /\ hl_response' = [hl_response EXCEPT ![r] = HlError(hl_req[r].dialect, 500)]
                    /\ hl_pc' = [hl_pc EXCEPT ![r] = "closed"]
                    /\ loaded_models' = [loaded_models EXCEPT ![n] = NoHandle]
                    /\ UNCHANGED <<next_handle, engine_models, hl_handle>>
    /\ hl_lock' = NoOwner
    /\ UNCHANGED hl_req
    /\ OnlyHl

\* Mutant of HlLoadReturn: a failed load binds the name to the next handle and
\* the handler goes on.
HlLoadReturn_BindsOnError(r) ==
    /\ hl_pc[r] = "loading"
    /\ \E o \in LoadOutcomes :
         LET n == hl_req[r].name
             h == next_handle
         IN /\ load_calls' = [load_calls EXCEPT ![n] = IF o = "transport" THEN @ ELSE @ + 1]
            /\ next_handle' = next_handle + 1
            /\ engine_models' = engine_models @@ (h :> n)
            /\ loaded_models' = [loaded_models EXCEPT ![n] = h]
            /\ hl_handle' = [hl_handle EXCEPT ![r] = h]
            /\ hl_pc' = [hl_pc EXCEPT ![r] = "wait_id"]
            /\ IF o = "ok"
               THEN UNCHANGED hl_response
               ELSE hl_response' = [hl_response EXCEPT ![r] = HlError(hl_req[r].dialect, 500)]
    /\ hl_lock' = NoOwner
    /\ UNCHANGED hl_req
    /\ OnlyHl

\* MaxEngine::load_model returns.  Ok: a handle is minted, stored under the
\* backend's model id, and the handler inserts name -> handle.  Err: 500.
\* Either way the guard is dropped.
HlLoadReturn(r) ==
    /\ hl_pc[r] = "loading"
    /\ \E o \in LoadOutcomes :
         LET n == hl_req[r].name
             h == next_handle
         IN /\ load_calls' = [load_calls EXCEPT ![n] = IF o = "transport" THEN @ ELSE @ + 1]
            /\ IF o = "ok"
               THEN /\ next_handle' = next_handle + 1
                    /\ engine_models' = engine_models @@ (h :> n)
                    /\ loaded_models' = [loaded_models EXCEPT ![n] = h]
                    /\ hl_handle' = [hl_handle EXCEPT ![r] = h]
                    /\ hl_pc' = [hl_pc EXCEPT ![r] = "wait_id"]
                    /\ UNCHANGED hl_response
               ELSE /\ hl_response' = [hl_response EXCEPT ![r] = HlError(hl_req[r].dialect, 500)]
                    /\ hl_pc' = [hl_pc EXCEPT ![r] = "closed"]
                    /\ UNCHANGED <<next_handle, engine_models, loaded_models, hl_handle>>
    /\ hl_lock' = NoOwner
    /\ UNCHANGED hl_req
    /\ OnlyHl

\* The handler takes the mutex for engine.get_model_id(handle) and drops it:
\* Some(id) goes on, None answers 404.
HlModelId(r) ==
    /\ hl_pc[r] = "wait_id"
    /\ hl_lock = NoOwner
    /\ IF get_model_id(hl_handle[r]) # NoneVal
       THEN /\ hl_pc' = [hl_pc EXCEPT ![r] = "wait_gen"]
            /\ UNCHANGED hl_response
       ELSE /\ hl_response' = [hl_response EXCEPT ![r] = HlError(hl_req[r].dialect, 404)]
            /\ hl_pc' = [hl_pc EXCEPT ![r] = "closed"]
    /\ UNCHANGED <<hl_lock, hl_req, hl_handle, loaded_models, engine_models,
                   next_handle, load_calls>>
    /\ OnlyHl

\* The handler takes the mutex and calls engine.generate / generate_stream.
HlLockForGenerate(r) ==
    /\ hl_pc[r] = "wait_gen"
    /\ hl_lock = NoOwner
    /\ hl_lock' = r
    /\ hl_pc' = [hl_pc EXCEPT ![r] = "in_call"]
    /\ UNCHANGED <<hl_req, hl_handle, hl_response, loaded_models, engine_models,
                   next_handle, load_calls>>
    /\ OnlyHl

\* Mutant of HlGenerateReturn: the error path returns with the guard still held.
HlGenerateReturn_KeepsGuardOnError(r) ==
    /\ hl_pc[r] = "in_call"
    /\ \E ok \in BOOLEAN :
         /\ hl_response' = [hl_response EXCEPT ![r] =
                              IF ok THEN HlOk(hl_req[r].dialect, hl_req[r].stream)
                                    ELSE HlError(hl_req[r].dialect, 500)]
         /\ hl_lock' = IF ok THEN NoOwner ELSE hl_lock
    /\ hl_pc' = [hl_pc EXCEPT ![r] = "closed"]
    /\ UNCHANGED <<hl_req, hl_handle, loaded_models, engine_models, next_handle, load_calls>>
    /\ OnlyHl

\* The engine call returns; the handler answers (JSON, or the Sse response
\* whose event stream is folded as in the gateway above) and drops the guard.
HlGenerateReturn(r) ==
    /\ hl_pc[r] = "in_call"
    /\ \E ok \in BOOLEAN :
         hl_response' = [hl_response EXCEPT ![r] =
                           IF ok THEN HlOk(hl_req[r].dialect, hl_req[r].stream)
                                 ELSE HlError(hl_req[r].dialect, 500)]
    /\ hl_lock' = NoOwner
    /\ hl_pc' = [hl_pc EXCEPT ![r] = "closed"]
    /\ UNCHANGED <<hl_req, hl_handle, loaded_models, engine_models, next_handle, load_calls>>
    /\ OnlyHl

HlNext ==
    \E r \in Reqs :
        \/ HlArrive(r)
        \/ HlLockForLoad(r)
        \/ HlLoadReturn(r)
        \/ HlModelId(r)
        \/ HlLockForGenerate(r)
        \/ HlGenerateReturn(r)

(***************************************************************************)
(* generate_stream of the engine clients.  The backend writes one line     *)
(* `data: <json>` per text fragment; the transport delivers the bytes in   *)
(* chunks cut anywhere.  A byte chunk is a sequence of byte runs: the two  *)
(* halves of the prefix "data: ", the JSON up to the fragment, the         *)
(* fragment, the JSON after it, the newline, and the marker [DONE].        *)
(***************************************************************************)
DataLine(t) == <<"dat", "a: ", "{", t, "}", "\n">>
DoneLine == <<"dat", "a: ", "[DONE]", "\n">>

RECURSIVE Concat(_)
Concat(ss) == IF ss = <<>> THEN <<>> ELSE Head(ss) \o Concat(Tail(ss))

\* Lines that carry no text fragment: a keep-alive comment, `data: ` followed
\* by invalid JSON, and `data: ` followed by JSON without a text field.
NoiseLines == {"ping", "badjson", "notext"}

\* The bytes of one line the backend writes.
LineOf(x) ==
    CASE x = "ping" -> <<": ping", "\n">>
      [] x = "badjson" -> <<"dat", "a: ", "{", "\n">>
      [] x = "notext" -> <<"dat", "a: ", "{", "}", "\n">>
      [] OTHER -> DataLine(x)

\* The bytes of one streamed response; the OpenAI-compatible backend ends
\* its stream with `data: [DONE]`.
Wire(frags, e) ==
    Concat([i \in 1..Len(frags) |-> LineOf(frags[i])])
        \o (IF e = "openai" THEN DoneLine ELSE <<>>)

\* The chunks of w when the transport cuts after the positions in cuts.
RECURSIVE SplitAt(_, _, _)
SplitAt(w, cuts, from) ==
    IF from > Len(w) THEN <<>>
    ELSE LET later == {c \in cuts : c >= from}
             to == IF later = {} THEN Len(w)
                   ELSE CHOOSE c \in later : \A d \in later : c <= d
         IN <<SubSeq(w, from, to)>> \o SplitAt(w, cuts, to + 1)

Chunkings(w) ==
    {SplitAt(w, cuts, 1) : cuts \in {c \in SUBSET (1..(Len(w) - 1)) : Cardinality(c) <= MaxCuts}}

\* str::lines: the pieces between newlines, a last piece without newline included.
RECURSIVE Lines(_)
Lines(c) ==
    IF c = <<>> THEN <<>>
    ELSE IF \E i \in 1..Len(c) : c[i] = "\n"
         THEN LET i == CHOOSE k \in 1..Len(c) : c[k] = "\n" /\ \A j \in 1..(k - 1) : c[j] # "\n"
              IN <<SubSeq(c, 1, i - 1)>> \o Lines(SubSeq(c, i + 1, Len(c)))
         ELSE <<c>>

\* line.strip_prefix("data: ")
StripPrefix(line) ==
    IF Len(line) >= 2 /\ line[1] = "dat" /\ line[2] = "a: "
    THEN [some |-> TRUE, data |-> SubSeq(line, 3, Len(line))]
    ELSE [some |-> FALSE, data |-> <<>>]

\* serde_json::from_str of the payload and the read of its text field.
ParseText(data) ==
    IF Len(data) = 3 /\ data[1] = "{" /\ data[2] \in Texts /\ data[3] = "}"
    THEN data[2]
    ELSE NoneVal

\* HttpEngineClient::generate_stream, the closure mapped over bytes_stream():
\* the first line that carries a text decides the item, else an empty text.
RECURSIVE HttpScan(_)
HttpScan(ls) ==
    IF ls = <<>> THEN OkItem("")
    ELSE LET p == StripPrefix(Head(ls))
         IN IF p.some /\ ParseText(p.data) # NoneVal
            THEN OkItem(ParseText(p.data))
            ELSE HttpScan(Tail(ls))

HttpChunkToItem(chunk) == HttpScan(Lines(chunk))

\* OpenAIClient::parse_sse_stream, the filter_map closure, followed by the map
\* of VllmOpenAIEngine::generate_stream: the first `data: ` line decides;
\* NoItem when the chunk yields no item.
RECURSIVE OpenAIScan(_)
OpenAIScan(ls) ==
    IF ls = <<>> THEN NoItem
    ELSE LET p == StripPrefix(Head(ls))
         IN IF ~p.some THEN OpenAIScan(Tail(ls))
            ELSE IF p.data = <<"[DONE]">> THEN NoItem
            ELSE IF ParseText(p.data) # NoneVal THEN OkItem(ParseText(p.data))
            ELSE ErrItem

OpenAIChunkToItem(chunk) == OpenAIScan(Lines(chunk))

ChunkToItem(e, chunk) ==
    IF e = "http" THEN HttpChunkToItem(chunk) ELSE OpenAIChunkToItem(chunk)

SseFragLists == UNION {[1..n -> Texts \cup NoiseLines] : n \in 0..MaxLines}

SseInit ==
    /\ sse_engine \in {"http", "openai"}
    /\ sse_sent \in SseFragLists
    /\ sse_wire \in Chunkings(Wire(sse_sent, sse_engine))
    /\ sse_frames = <<>>
    /\ sse_state = "streaming"

SseIdle ==
    /\ sse_engine = "http"
    /\ sse_sent = <<>>
    /\ sse_wire = <<>>
    /\ sse_frames = <<>>
    /\ sse_state = "streaming"

\* The caller polls: the next byte chunk arrives and the engine client turns
\* it into an item the gateway answers with a frame, into an error that ends
\* the SSE stream, or into nothing.
SseChunk ==
    /\ sse_state = "streaming"
    /\ sse_wire # <<>>
    /\ LET item == ChunkToItem(sse_engine, Head(sse_wire))
       IN IF item.kind = "none"
          THEN UNCHANGED <<sse_frames, sse_state>>
          ELSE IF item.kind = "ok"
               THEN /\ sse_frames' = Append(sse_frames, ChunkFrame("generate", item.text))
                    /\ UNCHANGED sse_state
               ELSE /\ sse_state' = "failed"
                    /\ UNCHANGED sse_frames
    /\ sse_wire' = Tail(sse_wire)
    /\ UNCHANGED <<sse_engine, sse_sent>>
    /\ OnlySse

\* The caller polls and bytes_stream() yields a transport error.
SseTransportError ==
    /\ sse_state = "streaming"
    /\ sse_wire # <<>>
    /\ sse_state' = "failed"
    /\ UNCHANGED <<sse_engine, sse_sent, sse_wire, sse_frames>>
    /\ OnlySse

\* The caller polls and the response body has ended: the terminal frame.
SseEnd ==
    /\ sse_state = "streaming"
    /\ sse_wire = <<>>
    /\ sse_frames' = Append(sse_frames, FinalFrame("generate", Len(sse_frames)))
    /\ sse_state' = "done"
    /\ UNCHANGED <<sse_engine, sse_sent, sse_wire>>
    /\ OnlySse

SseNext == SseChunk \/ SseTransportError \/ SseEnd

(***************************************************************************)
(* vllama serve: run() spawns vLLM in its own process group, waits for its *)
(* health endpoint, serves until the server future or a shutdown signal    *)
(* ends the select!, and tears the group down.                             *)
(***************************************************************************)
\* probes of wait_for_vllm_ready: for _ in 0..120
HealthAttempts == 120
OutputModes == {"Normal", "Json", "Quiet"}

SrvInit ==
    /\ srv_cfg \in [no_vllm : BOOLEAN, has_model : BOOLEAN, output_mode : OutputModes]
    /\ srv_pc = "start"
    /\ srv_result = "none"
    /\ vllm_process = FALSE
    /\ group_alive = FALSE
    /\ srv_signals = <<>>
    /\ child_wait = "none"
    /\ attempts = 0
    /\ listening = FALSE
    /\ kill_return = "none"
    /\ health_seen = FALSE

SrvIdle ==
    /\ srv_cfg = [no_vllm |-> TRUE, has_model |-> FALSE, output_mode |-> "Quiet"]
    /\ srv_pc = "start"
    /\ srv_result = "none"
    /\ vllm_process = FALSE
    /\ group_alive = FALSE
    /\ srv_signals = <<>>
    /\ child_wait = "none"
    /\ attempts = 0
    /\ listening = FALSE
    /\ kill_return = "none"
    /\ health_seen = FALSE

\* run() with --no-vllm or without a model: no backend is started.
SrvSkipBackend ==
    /\ srv_pc = "start"
    /\ srv_cfg.no_vllm \/ ~srv_cfg.has_model
    /\ srv_pc' = "server_new"
    /\ UNCHANGED <<srv_cfg, srv_result, vllm_process, group_alive, srv_signals,
                   child_wait, attempts, listening, kill_return>>
    /\ UNCHANGED health_seen
    /\ OnlySrv

\* start_vllm_server(..)?: the child is spawned with process_group(0), or the
\* spawn fails and run() returns the error.
SrvSpawn ==
    /\ srv_pc = "start"
    /\ ~srv_cfg.no_vllm /\ srv_cfg.has_model
    /\ \/ /\ vllm_process' = TRUE
          /\ group_alive' = TRUE
          /\ srv_pc' = "health_wait"
          /\ UNCHANGED srv_result
       \/ /\ srv_pc' = "returned"
          /\ srv_result' = "err_spawn"
          /\ UNCHANGED <<vllm_process, group_alive>>
    /\ UNCHANGED <<srv_cfg, srv_signals, child_wait, attempts, listening, kill_return>>
    /\ UNCHANGED health_seen
    /\ OnlySrv

\* The backend's processes end on their own (crash, or exit after SIGTERM).
BackendExits ==
    /\ group_alive
    /\ srv_pc # "returned"
    /\ group_alive' = FALSE
    /\ UNCHANGED <<srv_cfg, srv_pc, srv_result, vllm_process, srv_signals,
                   child_wait, attempts, listening, kill_return>>
    /\ UNCHANGED health_seen
    /\ OnlySrv

\* Mutant of HealthProbe: the gate lets run() go on after a failed probe.
HealthProbe_NoGate ==
    /\ srv_pc = "health_wait"
    /\ attempts < HealthAttempts
    /\ attempts' = attempts + 1
    /\ \/ /\ group_alive
          /\ srv_pc' = "server_new"
          /\ health_seen' = TRUE
       \/ /\ srv_pc' = "server_new"
          /\ UNCHANGED health_seen
    /\ UNCHANGED <<srv_cfg, srv_result, vllm_process, group_alive, srv_signals,
                   child_wait, listening, kill_return>>
    /\ OnlySrv

\* One round of wait_for_vllm_ready: sleep 1 s, GET /health; a success status
\* returns true, anything else continues the loop.
HealthProbe ==
    /\ srv_pc = "health_wait"
    /\ attempts < HealthAttempts
    /\ attempts' = attempts + 1
    /\ \/ /\ group_alive
          /\ srv_pc' = "server_new"
          /\ health_seen' = TRUE
       \/ UNCHANGED <<srv_pc, health_seen>>
    /\ UNCHANGED <<srv_cfg, srv_result, vllm_process, group_alive, srv_signals,
                   child_wait, listening, kill_return>>
    /\ OnlySrv

\* One round whose GET is not answered at once: client.get(&url).send().await
\* is pending.  reqwest::Client::new() sets no timeout, so the round lasts
\* until the backend answers or the connection ends.
ProbePending ==
    /\ srv_pc = "health_wait"
    /\ attempts < HealthAttempts
    /\ group_alive
    /\ attempts' = attempts + 1
    /\ srv_pc' = "probe_pending"
    /\ UNCHANGED <<srv_cfg, srv_result, vllm_process, group_alive, srv_signals,
                   child_wait, listening, kill_return>>
    /\ UNCHANGED health_seen
    /\ OnlySrv

\* The backend answers the pending GET: a success status returns true, any
\* other status continues the loop.
ProbeLateAnswer ==
    /\ srv_pc = "probe_pending"
    /\ group_alive
    /\ \/ /\ srv_pc' = "server_new"
          /\ health_seen' = TRUE
       \/ /\ srv_pc' = "health_wait"
          /\ UNCHANGED health_seen
    /\ UNCHANGED <<srv_cfg, srv_result, vllm_process, group_alive, srv_signals,
                   child_wait, attempts, listening, kill_return>>
    /\ OnlySrv

\* The backend's processes are gone: the pending GET ends with Err and the
\* loop continues.
ProbeAborted ==
    /\ srv_pc = "probe_pending"
    /\ ~group_alive
    /\ srv_pc' = "health_wait"
    /\ UNCHANGED <<srv_cfg, srv_result, vllm_process, group_alive, srv_signals,
                   child_wait, attempts, listening, kill_return>>
    /\ UNCHANGED health_seen
    /\ OnlySrv

\* wait_for_vllm_ready returns false after the last probe; run() calls
\* kill_process_tree(&mut child).
HealthTimeout ==
    /\ srv_pc = "health_wait"
    /\ attempts = HealthAttempts
    /\ srv_pc' = IF vllm_process THEN "kill_tree" ELSE "gate_bail"
    /\ kill_return' = "gate"
    /\ UNCHANGED <<srv_cfg, srv_result, vllm_process, group_alive, srv_signals,
                   child_wait, attempts, listening>>
    /\ UNCHANGED health_seen
    /\ OnlySrv

\* kill_process_tree, first half: libc::kill(-pid, SIGTERM), then sleep 2 s.
KillSigterm ==
    /\ srv_pc = "kill_tree"
    /\ srv_signals' = Append(srv_signals, "SIGTERM")
    /\ srv_pc' = "kill_grace"
    /\ UNCHANGED <<srv_cfg, srv_result, vllm_process, group_alive, child_wait,
                   attempts, listening, kill_return>>
    /\ UNCHANGED health_seen
    /\ OnlySrv

\* Mutant of KillSigkill: the forced kill is left out.
KillSigkill_Missing ==
    /\ srv_pc = "kill_grace"
    /\ srv_pc' = IF kill_return = "gate" THEN "gate_bail" ELSE "teardown_wait"
    /\ UNCHANGED <<srv_cfg, srv_result, vllm_process, group_alive, srv_signals,
                   child_wait, attempts, listening, kill_return>>
    /\ UNCHANGED health_seen
    /\ OnlySrv

\* kill_process_tree, second half: libc::kill(-pid, SIGKILL), Ok(()).
KillSigkill ==
    /\ srv_pc = "kill_grace"
    /\ srv_signals' = Append(srv_signals, "SIGKILL")
    /\ group_alive' = FALSE
    /\ srv_pc' = IF kill_return = "gate" THEN "gate_bail" ELSE "teardown_wait"
    /\ UNCHANGED <<srv_cfg, srv_result, vllm_process, child_wait, attempts,
                   listening, kill_return>>
    /\ UNCHANGED health_seen
    /\ OnlySrv

\* anyhow::bail!("vLLM server failed to start within 120 seconds")
GateBail ==
    /\ srv_pc = "gate_bail"
    /\ srv_pc' = "returned"
    /\ srv_result' = "err_health_gate"
    /\ UNCHANGED <<srv_cfg, vllm_process, group_alive, srv_signals, child_wait,
                   attempts, listening, kill_return>>
    /\ UNCHANGED health_seen
    /\ OnlySrv

\* Server::new(host, port): ServerState::new() always returns Ok.
ServerNew ==
    /\ srv_pc = "server_new"
    /\ srv_pc' = "bind"
    /\ UNCHANGED <<srv_cfg, srv_result, vllm_process, group_alive, srv_signals,
                   child_wait, attempts, listening, kill_return>>
    /\ UNCHANGED health_seen
    /\ OnlySrv

\* Server::run: TcpListener::bind(&addr).await? inside the select!.
ServerBind ==
    /\ srv_pc = "bind"
    /\ \/ /\ listening' = TRUE
          /\ srv_pc' = "serving"
          /\ UNCHANGED srv_result
       \/ /\ srv_pc' = "returned"
          /\ srv_result' = "err_server"
          /\ UNCHANGED listening
    /\ UNCHANGED <<srv_cfg, vllm_process, group_alive, srv_signals, child_wait,
                   attempts, kill_return>>
    /\ UNCHANGED health_seen
    /\ OnlySrv

\* The server future completes first: Ok falls through to the teardown,
\* Err leaves run() through `?`.
ServerEnds ==
    /\ srv_pc = "serving"
    /\ \/ /\ srv_pc' = "teardown"
          /\ UNCHANGED srv_result
       \/ /\ srv_pc' = "returned"
          /\ srv_result' = "err_server"
    /\ UNCHANGED <<srv_cfg, vllm_process, group_alive, srv_signals, child_wait,
                   attempts, listening, kill_return>>
    /\ UNCHANGED health_seen
    /\ OnlySrv

\* shutdown_signal() completes first: Ctrl+C or SIGTERM to the gateway.
ShutdownSignal ==
    /\ srv_pc \in {"bind", "serving"}
    /\ srv_pc' = "teardown"
    /\ UNCHANGED <<srv_cfg, srv_result, vllm_process, group_alive, srv_signals,
                   child_wait, attempts, listening, kill_return>>
    /\ UNCHANGED health_seen
    /\ OnlySrv

\* After the select!: with a child, kill_process_tree; without, return Ok.
Teardown ==
    /\ srv_pc = "teardown"
    /\ IF vllm_process
       THEN /\ srv_pc' = "kill_tree"
            /\ kill_return' = "shutdown"
            /\ UNCHANGED srv_result
       ELSE /\ srv_pc' = "returned"
            /\ srv_result' = "ok"
            /\ UNCHANGED kill_return
    /\ UNCHANGED <<srv_cfg, vllm_process, group_alive, srv_signals, child_wait,
                   attempts, listening>>
    /\ UNCHANGED health_seen
    /\ OnlySrv

\* Mutant of TeardownWait: a failed child.wait() fails run().
TeardownWait_Propagates ==
    /\ srv_pc = "teardown_wait"
    /\ ~group_alive
    /\ \/ child_wait' = "reaped" /\ srv_result' = "ok"
       \/ child_wait' = "failed" /\ srv_result' = "err_teardown"
    /\ srv_pc' = "returned"
    /\ UNCHANGED <<srv_cfg, vllm_process, group_alive, srv_signals, attempts,
                   listening, kill_return>>
    /\ UNCHANGED health_seen
    /\ OnlySrv

\* kill_process_tree returned Ok: `let _ = child.wait()` reaps the child or
\* fails, the result is discarded; then "Shutdown complete" and Ok(()).
TeardownWait ==
    /\ srv_pc = "teardown_wait"
    /\ ~group_alive
    /\ child_wait' \in {"reaped", "failed"}
    /\ srv_pc' = "returned"
    /\ srv_result' = "ok"
    /\ UNCHANGED <<srv_cfg, vllm_process, group_alive, srv_signals, attempts,
                   listening, kill_return>>
    /\ UNCHANGED health_seen
    /\ OnlySrv

SrvNext ==
    \/ SrvSkipBackend
    \/ SrvSpawn
    \/ BackendExits
    \/ HealthProbe
    \/ ProbePending
    \/ ProbeLateAnswer
    \/ ProbeAborted
    \/ HealthTimeout
    \/ KillSigterm
    \/ KillSigkill
    \/ GateBail
    \/ ServerNew
    \/ ServerBind
    \/ ServerEnds
    \/ ShutdownSignal
    \/ Teardown
    \/ TeardownWait

(***************************************************************************)
(* The engine clients.  HttpEngineClient and MaxEngine keep handle ->      *)
(* model id and mint handles from a counter; VllmOpenAIEngine keeps none.  *)
(***************************************************************************)
EngineKinds == {"http", "max", "openai"}
\* What the backend does with a request: answers 2xx with a body that parses,
\* cannot be reached, answers non-2xx, or answers 2xx with an unparsable body.
Outcomes == {"ok", "transport", "status", "parse"}
\* Bodies of GET /health, by what they hold of the availability field.
HealthBodies == {"not_json", "no_field", "field_not_bool", "field_false", "field_true"}

NoInput == [outcome |-> "ok", name |-> "m1", handle |-> 0, status_ok |-> TRUE, body |-> "not_json"]
NoCall ==
    [op |-> "none", result |-> "Ok", handle |-> 0, flag |-> FALSE, called |-> FALSE,
     models_before |-> <<>>, next_before |-> 1]
NoStream == [state |-> "none", items |-> <<>>]

\* The record of a finished call.
Call(op, result, handle, flag, called) ==
    [op |-> op, result |-> result, handle |-> handle, flag |-> flag, called |-> called,
     models_before |-> ec_loaded_models, next_before |-> ec_next_handle]

\* A function without the key h (HashMap::remove).
Remove(f, h) == [k \in (DOMAIN f) \ {h} |-> f[k]]

EcInit ==
    /\ ec_kind \in EngineKinds
    /\ ec_loaded_models = <<>>
    /\ ec_next_handle = 1
    /\ ec_input = NoInput
    /\ ec_last = NoCall
    /\ ec_stream = NoStream
    /\ ec_minted = <<>>

EcIdle ==
    /\ ec_kind = "http"
    /\ ec_loaded_models = <<>>
    /\ ec_next_handle = 1
    /\ ec_input = NoInput
    /\ ec_last = NoCall
    /\ ec_stream = NoStream
    /\ ec_minted = <<>>

\* Mutant of EcLoadModel: the handle is minted before the request is sent.
EcLoadModel_MintsFirst ==
    /\ ec_kind # "openai"
    /\ ec_next_handle <= MaxLoads
    /\ \E o \in Outcomes, n \in Names :
         LET h == ec_next_handle
         IN /\ ec_input' = [NoInput EXCEPT !.outcome = o, !.name = n]
            /\ ec_next_handle' = ec_next_handle + 1
            /\ ec_minted' = Append(ec_minted, h)
            /\ IF o = "ok"
               THEN /\ ec_loaded_models' = ec_loaded_models @@ (h :> n)
                    /\ ec_last' = Call("load", "Ok", h, FALSE, TRUE)
               ELSE /\ ec_last' = Call("load", "ModelLoadFailed", 0, FALSE, TRUE)
                    /\ UNCHANGED ec_loaded_models
    /\ UNCHANGED <<ec_kind, ec_stream>>
    /\ OnlyEc

\* load_model of HttpEngineClient and MaxEngine: POST /models/load; a failed
\* send, a non-2xx status and an unparsable body return ModelLoadFailed; a
\* success mints the handle and inserts handle -> model_id of the response.
EcLoadModel ==
    /\ ec_kind # "openai"
    /\ ec_next_handle <= MaxLoads
    /\ \E o \in Outcomes, n \in Names :
         LET h == ec_next_handle
         IN /\ ec_input' = [NoInput EXCEPT !.outcome = o, !.name = n]
            /\ IF o = "ok"
               THEN /\ ec_next_handle' = ec_next_handle + 1
                    /\ ec_minted' = Append(ec_minted, h)
                    /\ ec_loaded_models' = ec_loaded_models @@ (h :> n)
                    /\ ec_last' = Call("load", "Ok", h, FALSE, TRUE)
               ELSE /\ ec_last' = Call("load", "ModelLoadFailed", 0, FALSE, TRUE)
                    /\ UNCHANGED <<ec_loaded_models, ec_next_handle, ec_minted>>
    /\ UNCHANGED <<ec_kind, ec_stream>>
    /\ OnlyEc

\* Mutant of EcLoadModelOpenAI: every load mints a new handle.
EcLoadModelOpenAI_Mints ==
    /\ ec_kind = "openai"
    /\ ec_next_handle <= MaxLoads
    /\ \E n \in Names : ec_input' = [NoInput EXCEPT !.name = n]
    /\ ec_last' = Call("load", "Ok", ec_next_handle, FALSE, FALSE)
    /\ ec_next_handle' = ec_next_handle + 1
    /\ ec_minted' = Append(ec_minted, ec_next_handle)
    /\ UNCHANGED <<ec_kind, ec_loaded_models, ec_stream>>
    /\ OnlyEc

\* load_model of VllmOpenAIEngine: Ok(ModelHandle(0)) without a request.
EcLoadModelOpenAI ==
    /\ ec_kind = "openai"
    /\ \E n \in Names : ec_input' = [NoInput EXCEPT !.name = n]
    /\ ec_last' = Call("load", "Ok", 0, FALSE, FALSE)
    /\ UNCHANGED <<ec_kind, ec_minted, ec_loaded_models, ec_next_handle, ec_stream>>
    /\ OnlyEc

\* Mutant of EcUnloadModel: a successful unload hands the freed handle back to
\* the counter.
EcUnloadModel_RecyclesHandle ==
    /\ ec_kind # "openai"
    /\ \E h \in 0..MaxLoads, o \in Outcomes \ {"parse"} :
         /\ ec_input' = [NoInput EXCEPT !.outcome = o, !.handle = h]
         /\ IF h \notin DOMAIN ec_loaded_models
            THEN /\ ec_last' = Call("unload", "ModelNotFound", h, FALSE, FALSE)
                 /\ UNCHANGED <<ec_loaded_models, ec_next_handle>>
            ELSE IF o # "ok"
                 THEN /\ ec_last' = Call("unload", "InferenceFailed", h, FALSE, TRUE)
                      /\ UNCHANGED <<ec_loaded_models, ec_next_handle>>
                 ELSE /\ ec_loaded_models' = Remove(ec_loaded_models, h)
                      /\ ec_next_handle' = h
                      /\ ec_last' = Call("unload", "Ok", h, FALSE, TRUE)
    /\ UNCHANGED <<ec_kind, ec_minted, ec_stream>>
    /\ OnlyEc

\* Mutant of EcUnloadModel: the mapping is removed before the backend answers.
EcUnloadModel_RemovesFirst ==
    /\ ec_kind # "openai"
    /\ \E h \in 0..MaxLoads, o \in Outcomes \ {"parse"} :
         /\ ec_input' = [NoInput EXCEPT !.outcome = o, !.handle = h]
         /\ IF h \notin DOMAIN ec_loaded_models
            THEN /\ ec_last' = Call("unload", "ModelNotFound", h, FALSE, FALSE)
                 /\ UNCHANGED ec_loaded_models
            ELSE /\ ec_loaded_models' = Remove(ec_loaded_models, h)
                 /\ ec_last' = Call("unload", IF o = "ok" THEN "Ok" ELSE "InferenceFailed",
                                    h, FALSE, TRUE)
    /\ UNCHANGED <<ec_kind, ec_minted, ec_next_handle, ec_stream>>
    /\ OnlyEc

\* unload_model of HttpEngineClient and MaxEngine: an unknown handle returns
\* ModelNotFound; else POST /models/unload, a failed send or a non-2xx status
\* returns InferenceFailed, a success removes the mapping.
EcUnloadModel ==
    /\ ec_kind # "openai"
    /\ \E h \in 0..MaxLoads, o \in Outcomes \ {"parse"} :
         /\ ec_input' = [NoInput EXCEPT !.outcome = o, !.handle = h]
         /\ IF h \notin DOMAIN ec_loaded_models
            THEN /\ ec_last' = Call("unload", "ModelNotFound", h, FALSE, FALSE)
                 /\ UNCHANGED ec_loaded_models
            ELSE IF o # "ok"
                 THEN /\ ec_last' = Call("unload", "InferenceFailed", h, FALSE, TRUE)
                      /\ UNCHANGED ec_loaded_models
                 ELSE /\ ec_loaded_models' = Remove(ec_loaded_models, h)
                      /\ ec_last' = Call("unload", "Ok", h, FALSE, TRUE)
    /\ UNCHANGED <<ec_kind, ec_minted, ec_next_handle, ec_stream>>
    /\ OnlyEc

\* unload_model of VllmOpenAIEngine: Ok(()) without a request.
EcUnloadModelOpenAI ==
    /\ ec_kind = "openai"
    /\ \E h \in 0..MaxLoads : ec_input' = [NoInput EXCEPT !.handle = h]
    /\ ec_last' = Call("unload", "Ok", ec_input'.handle, FALSE, FALSE)
    /\ UNCHANGED <<ec_kind, ec_minted, ec_loaded_models, ec_next_handle, ec_stream>>
    /\ OnlyEc

\* The finished flag of the GenerateResponse a successful generate returns:
\* GenerateResponse::new(..).with_text(..) leaves finished = false,
\* VllmOpenAIEngine::generate builds the response with finished: true.
GenerateFinished(kind) ==
    CASE kind = "http" -> FALSE
      [] kind = "max" -> FALSE
      [] kind = "openai" -> TRUE

\* The error of a failed generate or generate_stream call.
GenerateError(kind) ==
    IF kind = "openai" THEN "ModelLoadFailed" ELSE "InferenceFailed"

\* generate: one POST; Ok(GenerateResponse) or the client's error.
EcGenerate ==
    /\ \E o \in Outcomes :
         /\ ec_input' = [NoInput EXCEPT !.outcome = o]
         /\ ec_last' = IF o = "ok"
                       THEN Call("generate", "Ok", 0, GenerateFinished(ec_kind), TRUE)
                       ELSE Call("generate", GenerateError(ec_kind), 0, FALSE, TRUE)
    /\ UNCHANGED <<ec_kind, ec_minted, ec_loaded_models, ec_next_handle, ec_stream>>
    /\ OnlyEc

\* health_check: GET /health.  HttpEngineClient reads the named field of a
\* JSON body (as_bool, else false); MaxEngine deserialises HealthResponse and
\* returns max_available; OpenAIClient::health returns status().is_success().
\* Every failure is Ok(false).
HealthCheck(kind, o, status_ok, body) ==
    IF o = "transport" THEN [result |-> "Ok", flag |-> FALSE]
    ELSE CASE kind = "http" ->
                [result |-> "Ok", flag |-> body = "field_true"]
           [] kind = "max" ->
                [result |-> "Ok", flag |-> body = "field_true"]
           [] kind = "openai" ->
                [result |-> "Ok", flag |-> status_ok]

EcHealthCheck ==
    /\ \E o \in {"ok", "transport"}, st \in BOOLEAN, b \in HealthBodies :
         LET res == HealthCheck(ec_kind, o, st, b)
         IN /\ ec_input' = [NoInput EXCEPT !.outcome = o, !.status_ok = st, !.body = b]
            /\ ec_last' = Call("health", res.result, 0, res.flag, TRUE)
    /\ UNCHANGED <<ec_kind, ec_minted, ec_loaded_models, ec_next_handle, ec_stream>>
    /\ OnlyEc

\* generate_stream: the POST is answered 2xx and the byte stream is wrapped,
\* or the call returns the client's error.
EcStreamOpen ==
    /\ \E o \in Outcomes \ {"parse"} :
         /\ ec_input' = [NoInput EXCEPT !.outcome = o]
         /\ IF o = "ok"
            THEN /\ ec_stream' = [state |-> "open", items |-> <<>>]
                 /\ ec_last' = Call("generate_stream", "Ok", 0, FALSE, TRUE)
            ELSE /\ ec_stream' = NoStream
                 /\ ec_last' = Call("generate_stream", GenerateError(ec_kind), 0, FALSE, TRUE)
    /\ UNCHANGED <<ec_kind, ec_minted, ec_loaded_models, ec_next_handle>>
    /\ OnlyEc

\* The finished flag of a stream item: HttpEngineClient and MaxEngine build it
\* with GenerateResponse::new (false); VllmOpenAIEngine sets
\* finish_reason.is_some() of the backend's chunk.
StreamItemFinished(kind, finish_reason) ==
    CASE kind = "http" -> FALSE
      [] kind = "max" -> FALSE
      [] kind = "openai" -> finish_reason

\* The backend's last chunk so far carried a finish_reason.
BackendFinished ==
    /\ ec_stream.items # <<>>
    /\ ec_stream.items[Len(ec_stream.items)].finish_reason

\* The caller polls and the backend's next chunk arrives, one `data:` line in
\* one byte chunk; the backend marks its last chunk with a finish_reason.
EcStreamItem ==
    /\ ec_stream.state = "open"
    /\ ~BackendFinished
    /\ Len(ec_stream.items) < MaxChunks
    /\ \E fr \in BOOLEAN :
         ec_stream' = [ec_stream EXCEPT !.items =
                         Append(@, [finished |-> StreamItemFinished(ec_kind, fr),
                                    finish_reason |-> fr])]
    /\ UNCHANGED <<ec_kind, ec_minted, ec_loaded_models, ec_next_handle, ec_input, ec_last>>
    /\ OnlyEc

\* The caller polls and the transport fails: the stream yields Err.
EcStreamError ==
    /\ ec_stream.state = "open"
    /\ ec_stream' = [ec_stream EXCEPT !.state = "failed"]
    /\ UNCHANGED <<ec_kind, ec_minted, ec_loaded_models, ec_next_handle, ec_input, ec_last>>
    /\ OnlyEc

\* The backend has sent its last chunk and closes the response: the stream
\* yields None.
EcStreamEnd ==
    /\ ec_stream.state = "open"
    /\ BackendFinished
    /\ ec_stream' = [ec_stream EXCEPT !.state = "ended"]
    /\ UNCHANGED <<ec_kind, ec_minted, ec_loaded_models, ec_next_handle, ec_input, ec_last>>
    /\ OnlyEc

EcNext ==
    \/ EcLoadModel
    \/ EcLoadModelOpenAI
    \/ EcUnloadModel
    \/ EcUnloadModelOpenAI
    \/ EcGenerate
    \/ EcHealthCheck
    \/ EcStreamOpen
    \/ EcStreamItem
    \/ EcStreamError
    \/ EcStreamEnd

(***************************************************************************)
(* EngineOrchestrator: which engines are retained for the hardware, and    *)
(* which one is selected.  hyperllama-engine keeps a list filled by        *)
(* initialize(); vllama-engine keeps the one engine built by new().        *)
(***************************************************************************)
OrcKinds == {"hyperllama", "vllama"}
HardwareTypes == {"Cpu", "NvidiaGpu", "AmdGpu", "AppleSilicon"}
CpuCores == {2, 4, 8}
Hardwares == [hw_type : HardwareTypes, cpu_cores : CpuCores]
NoEngine == "None"
NoOrcCall == [op |-> "none", before |-> <<>>, result |-> NoEngine]

has_gpu(hw) == hw.hw_type \in {"NvidiaGpu", "AmdGpu", "AppleSilicon"}

\* supports_hardware of each engine type.
supports_hardware(e, hw) ==
    CASE e = "vllm" -> hw.hw_type = "NvidiaGpu"
      [] e = "max" -> has_gpu(hw) \/ hw.cpu_cores >= 4
      [] e = "llama_cpp" -> TRUE
      [] e = "vllm_openai" -> has_gpu(hw)

\* hyperllama initialize(): every constructor returns Ok; vLLM and MAX are
\* pushed when they support the hardware, llama.cpp is pushed unasked.
initialize(engines, hw) ==
    LET e1 == IF supports_hardware("vllm", hw) THEN Append(engines, "vllm") ELSE engines
        e2 == IF supports_hardware("max", hw) THEN Append(e1, "max") ELSE e1
    IN  Append(e2, "llama_cpp")

\* Mutant of select_engine: no fallback to the first retained engine.
select_engine_NoFallback(engines, hw) ==
    LET compatible == {i \in 1..Len(engines) : supports_hardware(engines[i], hw)}
    IN  IF compatible # {}
        THEN engines[CHOOSE i \in compatible : \A j \in compatible : i <= j]
        ELSE NoEngine

\* hyperllama select_engine(): the loop over the list, then first().  With
\* vllama's single engine the body is Some(self.engine.clone()), which is the
\* same value on the one-element list.
select_engine(engines, hw) ==
    LET Scan[i \in 1..(Len(engines) + 1)] ==
            IF i > Len(engines) THEN NoEngine
            ELSE IF supports_hardware(engines[i], hw) THEN engines[i]
            ELSE Scan[i + 1]
        found == Scan[1]
    IN  IF found # NoEngine THEN found
        ELSE IF engines = <<>> THEN NoEngine
        ELSE engines[1]

\* EngineOrchestrator::new(hardware) of either crate.
OrcInit ==
    /\ orc_kind \in OrcKinds
    /\ orc_hardware \in Hardwares
    /\ orc_engines = IF orc_kind = "vllama" THEN <<"vllm_openai">> ELSE <<>>
    /\ orc_inits = 0
    /\ orc_last = NoOrcCall

OrcIdle ==
    /\ orc_kind = "hyperllama"
    /\ orc_hardware = [hw_type |-> "Cpu", cpu_cores |-> 2]
    /\ orc_engines = <<>>
    /\ orc_inits = 0
    /\ orc_last = NoOrcCall

\* initialize(&mut self): hyperllama appends to self.engines, vllama only logs.
OrcInitialize ==
    /\ orc_inits < MaxInits
    /\ orc_engines' = IF orc_kind = "hyperllama"
                      THEN initialize(orc_engines, orc_hardware)
                      ELSE orc_engines
    /\ orc_inits' = orc_inits + 1
    /\ orc_last' = [op |-> "initialize", before |-> orc_engines, result |-> NoEngine]
    /\ UNCHANGED <<orc_kind, orc_hardware>>
    /\ OnlyOrc

\* select_engine(&self).
OrcSelectEngine ==
    /\ orc_last' = [op |-> "select_engine", before |-> orc_engines,
                    result |-> select_engine(orc_engines, orc_hardware)]
    /\ UNCHANGED <<orc_kind, orc_hardware, orc_engines, orc_inits>>
    /\ OnlyOrc

OrcNext ==
    \/ OrcInitialize
    \/ OrcSelectEngine

(***************************************************************************)
(* Chat prompt rendering.  A model name is a sequence of characters, a     *)
(* prompt the sequence of the string pieces pushed or joined, in order.    *)
(***************************************************************************)
Servers == {"vllama", "hyperllama"}
ChatRoutes == {"chat", "openai"}
Roles == {"System", "User", "Assistant", "Tool"}
Messages == [role : Roles, content : Texts]
MessageLists == UNION {[1..n -> Messages] : n \in 0..MaxMsgs}
ModelNames ==
    { <<"l", "l", "a", "m", "a">>,
      <<"L", "l", "a", "m", "a", "-", "3">>,
      <<"x", "/", "L", "L", "A", "M", "A">>,
      <<"l", "a", "m", "a">>,
      <<"q", "w", "e", "n">>,
      <<>> }

\* str::to_lowercase, on the characters that occur.
to_lowercase(name) ==
    [i \in 1..Len(name) |->
        CASE name[i] = "L" -> "l"
          [] name[i] = "A" -> "a"
          [] name[i] = "M" -> "m"
          [] OTHER -> name[i]]

\* str::contains.
contains(name, pat) ==
    \E i \in 1..(Len(name) - Len(pat) + 1) : SubSeq(name, i, i + Len(pat) - 1) = pat

\* The role name in a Llama-3 header.
RoleHeader(role) ==
    CASE role = "System" -> "system"
      [] role = "User" -> "user"
      [] role = "Assistant" -> "assistant"
      [] role = "Tool" -> "tool"

\* Llama3Template::apply.
RECURSIVE Llama3Body(_)
Llama3Body(messages) ==
    IF messages = <<>> THEN <<>>
    ELSE <<"<|start_header_id|>", RoleHeader(Head(messages).role), "<|end_header_id|>\n\n",
           Head(messages).content, "<|eot_id|>">> \o Llama3Body(Tail(messages))

Llama3Template(messages) ==
    <<"<|begin_of_text|>">> \o Llama3Body(messages)
        \o <<"<|start_header_id|>", "assistant", "<|end_header_id|>\n\n">>

\* SimpleChatTemplate::apply, and messages_to_prompt of vllama-server, which
\* has the same body: "Role: content" entries joined by "\n\n".
RECURSIVE SimpleChatTemplate(_)
SimpleChatTemplate(messages) ==
    IF messages = <<>> THEN <<>>
    ELSE LET entry == <<Head(messages).role, ": ", Head(messages).content>>
         IN  IF Tail(messages) = <<>> THEN entry
             ELSE entry \o <<"\n\n">> \o SimpleChatTemplate(Tail(messages))

\* get_template_for_model, and the same test inlined in hyperllama-server.
get_template_for_model(name, messages) ==
    IF contains(to_lowercase(name), <<"l", "l", "a", "m", "a">>)
    THEN Llama3Template(messages)
    ELSE SimpleChatTemplate(messages)

messages_to_prompt(messages) == SimpleChatTemplate(messages)

NoPrompt == [kind |-> "none", pieces |-> <<>>]

\* What each chat handler hands to the engine: hyperllama-server chooses the
\* template by model name; vllama-server calls messages_to_prompt, except on
\* non-streaming /api/chat where the messages go to generate_chat_completion.
RenderedFor(req) ==
    IF req.server = "hyperllama"
    THEN [kind |-> "prompt", pieces |-> get_template_for_model(req.model, req.messages)]
    ELSE IF req.route = "chat" /\ ~req.stream
         THEN [kind |-> "messages", pieces |-> <<>>]
         ELSE [kind |-> "prompt", pieces |-> messages_to_prompt(req.messages)]

PrInit ==
    /\ chat_req \in [server : Servers, route : ChatRoutes, stream : BOOLEAN,
                     model : ModelNames, messages : MessageLists]
    /\ chat_prompt = NoPrompt

PrIdle ==
    /\ chat_req = [server |-> "vllama", route |-> "chat", stream |-> FALSE,
                   model |-> <<>>, messages |-> <<>>]
    /\ chat_prompt = NoPrompt

\* The handler builds what it passes to the engine.
RenderPrompt ==
    /\ chat_prompt = NoPrompt
    /\ chat_prompt' = RenderedFor(chat_req)
    /\ UNCHANGED chat_req
    /\ OnlyPr

PrNext == RenderPrompt

(***************************************************************************)
(* Serve settings: Config::load merges the config files over the defaults, *)
(* run_command applies the CLI flags.  The port stands for the settings    *)
(* compared with their default.                                            *)
(***************************************************************************)
default_port == 11435
cli_default_port == 11434
Ports == {9000, default_port, cli_default_port}
\* A flag or a key of a file: given with a value, or not given.
NotGiven == [set |-> FALSE, port |-> 0]
Given == [set : {TRUE}, port : Ports]
\* A config file: absent, or present with or without the key server.port.
NoFile == [exists |-> FALSE, key |-> NotGiven]
ConfigFiles == {NoFile} \cup [exists : {TRUE}, key : Given \cup {NotGiven}]

\* clap: the flag's value, or default_value = "11434".
ParseFlag(flag) == IF flag.set THEN flag.port ELSE cli_default_port

\* load_from_file: toml::from_str with #[serde(default = "default_port")].
load_from_file(file) == IF file.key.set THEN file.key.port ELSE default_port

\* Config::merge on server.port (self, other are the two ports).
merge(self_port, other_port) ==
    IF other_port # default_port THEN other_port ELSE self_port

CfInit ==
    /\ cfg_sources \in [cli : Given \cup {NotGiven}, local : ConfigFiles, user : ConfigFiles]
    /\ cfg_state = [pc |-> "start", config_port |-> default_port, port |-> 0]

CfIdle ==
    /\ cfg_sources = [cli |-> NotGiven, local |-> NoFile, user |-> NoFile]
    /\ cfg_state = [pc |-> "start", config_port |-> default_port, port |-> 0]

\* Config::load: defaults, then the user config if it exists, then
\* ./vllama.toml if it exists.
ConfigLoad ==
    /\ cfg_state.pc = "start"
    /\ LET c0 == default_port
           c1 == IF cfg_sources.user.exists
                 THEN merge(c0, load_from_file(cfg_sources.user)) ELSE c0
           c2 == IF cfg_sources.local.exists
                 THEN merge(c1, load_from_file(cfg_sources.local)) ELSE c1
       IN  cfg_state' = [pc |-> "loaded", config_port |-> c2, port |-> 0]
    /\ UNCHANGED cfg_sources
    /\ OnlyCf

\* run_command, Commands::Serve: the flag unless it equals 11434.
RunCommand ==
    /\ cfg_state.pc = "loaded"
    /\ LET port == ParseFlag(cfg_sources.cli)
       IN  cfg_state' = [cfg_state EXCEPT
                           !.pc = "serve",
                           !.port = IF port = cli_default_port
                                    THEN cfg_state.config_port ELSE port]
    /\ UNCHANGED cfg_sources
    /\ OnlyCf

CfNext ==
    \/ ConfigLoad
    \/ RunCommand

(***************************************************************************)
(* POST /api/pull of vllama-server.  A name already in LoadedModelsMap is  *)
(* answered at once.  Otherwise the model is downloaded (three files, a    *)
(* progress callback around each), loaded through the engine under the     *)
(* mutex and inserted.  With stream = true the download and the load run   *)
(* in a spawned task whose callback sends the progress into a channel, and *)
(* the answer is an SSE stream unfolded from the channel's receiver.       *)
(***************************************************************************)
None == <<>>
Some(x) == <<x>>
FetchingStatus(n) ==
    IF n = "m1" THEN "Fetching m1 from HuggingFace Hub"
                ELSE "Fetching m2 from HuggingFace Hub"
DownloadProgress(d, t, st) == [downloaded |-> d, total |-> t, status |-> st]
\* the frame the unfold makes of a received DownloadProgress
ProgressEvent(progress) ==
    [status |-> progress.status,
     digest |-> None,
     total |-> IF progress.total > 0 THEN Some(progress.total) ELSE None,
     completed |-> IF progress.downloaded > 0 THEN Some(progress.downloaded) ELSE None]
SuccessEvent == [status |-> "success", digest |-> None, total |-> None, completed |-> None]
PullNoResponse == [status |-> 0, body |-> "none"]
PullSuccess == [status |-> 200, body |-> "success"]
PullSse == [status |-> 200, body |-> "sse"]
PullError == [status |-> 500, body |-> "error"]
PullIdleRun == [pc |-> "idle", result |-> "none", response |-> PullNoResponse,
                chan |-> <<>>, frames |-> <<>>]

PlInit ==
    /\ pl_req = [r \in Reqs |-> [name |-> "m1", stream |-> FALSE]]
    /\ pl_run = [r \in Reqs |-> PullIdleRun]
    /\ pl_shared = [lock |-> NoOwner, loaded_models |-> [n \in Names |-> NoHandle],
                    next_handle |-> 1, downloads |-> 0, load_calls |-> 0]
PlIdle == PlInit

\* the progress callback: tx.try_send in the streaming branch, |_| {} otherwise
Callback(r, progress) ==
    IF pl_req[r].stream THEN Append(pl_run[r].chan, progress) ELSE pl_run[r].chan

\* download_model returned Err: the task ends (dropping tx), or the handler
\* answers 500.
DownloadFailed(r) ==
    /\ pl_run' = [pl_run EXCEPT ![r] =
                    IF pl_req[r].stream
                    THEN [@ EXCEPT !.pc = "task_done", !.result = "download_failed"]
                    ELSE [@ EXCEPT !.pc = "closed", !.result = "download_failed",
                                   !.response = PullError]]
    /\ UNCHANGED <<pl_req, pl_shared>>

\* Mutant of PullArrive: the handler does not look the name up first.
PullArrive_NoLookup(r) ==
    /\ pl_run[r].pc = "idle"
    /\ \E n \in Names, st \in BOOLEAN, new_ok \in BOOLEAN :
         /\ pl_req' = [pl_req EXCEPT ![r] = [name |-> n, stream |-> st]]
         /\ IF ~new_ok
            THEN /\ pl_run' = [pl_run EXCEPT ![r] = [@ EXCEPT !.pc = "closed",
                                                               !.response = PullError]]
                 /\ UNCHANGED pl_shared
            ELSE /\ pl_run' = [pl_run EXCEPT ![r] =
                      [@ EXCEPT !.pc = "config",
                                !.response = IF st THEN PullSse ELSE PullNoResponse,
                                !.chan = IF st THEN <<DownloadProgress(0, 0, FetchingStatus(n))>>
                                               ELSE <<>>]]
                 /\ pl_shared' = [pl_shared EXCEPT !.downloads = @ + 1]
    /\ OnlyPl

\* The handler up to the first await of download_model: contains_key,
\* ModelDownloader::new, then the spawn and the Sse answer (stream) or the
\* call itself; download_model reports "Fetching ..." and requests config.json.
PullArrive(r) ==
    /\ pl_run[r].pc = "idle"
    /\ \E n \in Names, st \in BOOLEAN, new_ok \in BOOLEAN :
         /\ pl_req' = [pl_req EXCEPT ![r] = [name |-> n, stream |-> st]]
         /\ IF pl_shared.loaded_models[n] # NoHandle
            THEN /\ pl_run' = [pl_run EXCEPT ![r] = [@ EXCEPT !.pc = "closed",
                                                               !.response = PullSuccess]]
                 /\ UNCHANGED pl_shared
            ELSE IF ~new_ok
            THEN /\ pl_run' = [pl_run EXCEPT ![r] = [@ EXCEPT !.pc = "closed",
                                                               !.response = PullError]]
                 /\ UNCHANGED pl_shared
            ELSE /\ pl_run' = [pl_run EXCEPT ![r] =
                      [@ EXCEPT !.pc = "config",
                                !.response = IF st THEN PullSse ELSE PullNoResponse,
                                !.chan = IF st THEN <<DownloadProgress(0, 0, FetchingStatus(n))>>
                                               ELSE <<>>]]
                 /\ pl_shared' = [pl_shared EXCEPT !.downloads = @ + 1]
    /\ OnlyPl

\* repo.get("config.json") returns: Err ends the download, Ok is reported.
PullConfig(r) ==
    /\ pl_run[r].pc = "config"
    /\ \/ DownloadFailed(r)
       \/ /\ pl_run' = [pl_run EXCEPT ![r] =
                 [@ EXCEPT !.pc = "tokenizer",
                           !.chan = Callback(r, DownloadProgress(1, 3, "Downloaded config.json"))]]
          /\ UNCHANGED <<pl_req, pl_shared>>
    /\ OnlyPl

\* repo.get("tokenizer_config.json") returns; its Err is only logged.
PullTokenizer(r) ==
    /\ pl_run[r].pc = "tokenizer"
    /\ pl_run' = [pl_run EXCEPT ![r] =
           [@ EXCEPT !.pc = "weights",
                     !.chan = Callback(r, DownloadProgress(2, 3, "Downloaded tokenizer config"))]]
    /\ UNCHANGED <<pl_req, pl_shared>>
    /\ OnlyPl

\* The weights (model.safetensors, else pytorch_model.bin) are fetched: Err
\* ends the download, Ok is reported as "completed" and download_model
\* returns the model directory.
PullWeights(r) ==
    /\ pl_run[r].pc = "weights"
    /\ \/ DownloadFailed(r)
       \/ /\ pl_run' = [pl_run EXCEPT ![r] =
                 [@ EXCEPT !.pc = "wait_lock",
                           !.chan = Callback(r, DownloadProgress(3, 3, "completed"))]]
          /\ UNCHANGED <<pl_req, pl_shared>>
    /\ OnlyPl

\* The task (or the handler) takes the engine mutex and calls load_model.
PullLock(r) ==
    /\ pl_run[r].pc = "wait_lock"
    /\ pl_shared.lock = NoOwner
    /\ pl_shared' = [pl_shared EXCEPT !.lock = r]
    /\ pl_run' = [pl_run EXCEPT ![r] = [@ EXCEPT !.pc = "loading"]]
    /\ UNCHANGED pl_req
    /\ OnlyPl

\* load_model returns.  Ok: the handle is inserted under the name.  The task
\* ends either way, dropping the guard and tx; the handler answers success or
\* 500.
PullLoadReturn(r) ==
    /\ pl_run[r].pc = "loading"
    /\ \E ok \in BOOLEAN :
         /\ pl_shared' = [pl_shared EXCEPT
                !.lock = NoOwner,
                !.load_calls = @ + 1,
                !.next_handle = IF ok THEN @ + 1 ELSE @,
                !.loaded_models = IF ok THEN [@ EXCEPT ![pl_req[r].name] = pl_shared.next_handle]
                                        ELSE @]
         /\ pl_run' = [pl_run EXCEPT ![r] =
                [@ EXCEPT !.pc = IF pl_req[r].stream THEN "task_done" ELSE "closed",
                          !.result = IF ok THEN "ok" ELSE "load_failed",
                          !.response = IF pl_req[r].stream THEN @
                                       ELSE IF ok THEN PullSuccess ELSE PullError]]
    /\ UNCHANGED pl_req
    /\ OnlyPl

\* The response body polls the unfold and receiver.recv() yields a progress.
PullPollProgress(r) ==
    /\ pl_req[r].stream
    /\ pl_run[r].chan # <<>>
    /\ pl_run' = [pl_run EXCEPT ![r] =
           [@ EXCEPT !.chan = Tail(@),
                     !.frames = Append(@, ProgressEvent(Head(pl_run[r].chan)))]]
    /\ UNCHANGED <<pl_req, pl_shared>>
    /\ OnlyPl

ClosedPolls(r) ==
    Len(SelectSeq(pl_run[r].frames, LAMBDA f : f = SuccessEvent))

\* The response body polls the unfold and receiver.recv() yields None: the
\* channel is empty and tx was dropped with the ended task.  The unfold emits
\* the "success" frame and keeps the receiver as its next state.
PullPollClosed(r) ==
    /\ pl_req[r].stream
    /\ pl_run[r].pc = "task_done"
    /\ pl_run[r].chan = <<>>
    /\ ClosedPolls(r) < MaxClosedPolls
    /\ pl_run' = [pl_run EXCEPT ![r] = [@ EXCEPT !.frames = Append(@, SuccessEvent)]]
    /\ UNCHANGED <<pl_req, pl_shared>>
    /\ OnlyPl

PlNext ==
    \E r \in Reqs :
        \/ PullArrive(r)
        \/ PullConfig(r)
        \/ PullTokenizer(r)
        \/ PullWeights(r)
        \/ PullLock(r)
        \/ PullLoadReturn(r)
        \/ PullPollProgress(r)
        \/ PullPollClosed(r)

(***************************************************************************)
(* Specifications.                                                         *)
(***************************************************************************)
InitGateway == GwInit /\ HlInit /\ SseIdle /\ SrvIdle /\ EcIdle /\ OrcIdle /\ PrIdle /\ CfIdle /\ PlIdle
InitLoad == HlInit /\ GwInit /\ SseIdle /\ SrvIdle /\ EcIdle /\ OrcIdle /\ PrIdle /\ CfIdle /\ PlIdle
InitSse == SseInit /\ GwInit /\ HlInit /\ SrvIdle /\ EcIdle /\ OrcIdle /\ PrIdle /\ CfIdle /\ PlIdle
InitServe == SrvInit /\ GwInit /\ HlInit /\ SseIdle /\ EcIdle /\ OrcIdle /\ PrIdle /\ CfIdle /\ PlIdle
InitEngine == EcInit /\ GwInit /\ HlInit /\ SseIdle /\ SrvIdle /\ OrcIdle /\ PrIdle /\ CfIdle /\ PlIdle
InitOrchestrator == OrcInit /\ GwInit /\ HlInit /\ SseIdle /\ SrvIdle /\ EcIdle /\ PrIdle /\ CfIdle /\ PlIdle
InitPrompt == PrInit /\ GwInit /\ HlInit /\ SseIdle /\ SrvIdle /\ EcIdle /\ OrcIdle /\ CfIdle /\ PlIdle
InitConfig == CfInit /\ GwInit /\ HlInit /\ SseIdle /\ SrvIdle /\ EcIdle /\ OrcIdle /\ PrIdle /\ PlIdle
InitPull == PlInit /\ GwInit /\ HlInit /\ SseIdle /\ SrvIdle /\ EcIdle /\ OrcIdle /\ PrIdle /\ CfIdle
SpecGateway == InitGateway /\ [][GwNext]_vars
SpecLoad == InitLoad /\ [][HlNext]_vars
SpecSse == InitSse /\ [][SseNext]_vars
SpecServe == InitServe /\ [][SrvNext]_vars
SpecEngine == InitEngine /\ [][EcNext]_vars
SpecOrchestrator == InitOrchestrator /\ [][OrcNext]_vars
SpecPrompt == InitPrompt /\ [][PrNext]_vars
SpecConfig == InitConfig /\ [][CfNext]_vars
SpecPull == InitPull /\ [][PlNext]_vars
\* run() is a task the runtime keeps scheduling: the grace sleep ends and the
\* teardown steps after the select! are taken; the probe loop's sleep ends, a
\* GET that is refused or answered returns, and a GET whose connection ended
\* returns.  Nothing makes a live backend answer a pending GET.
SpecServeFair ==
    /\ InitServe /\ [][SrvNext]_vars
    /\ WF_vars(Teardown) /\ WF_vars(KillSigterm) /\ WF_vars(KillSigkill)
    /\ WF_vars(TeardownWait)
    /\ WF_vars(HealthProbe) /\ WF_vars(HealthTimeout) /\ WF_vars(ProbeAborted)

\* Each handler is a task the runtime keeps polling.  "Every backend call
\* returns": a pending load_model or generate call ends.  A handler waiting in
\* lock().await gets the guard once the mutex stays free (tokio::sync::Mutex
\* queues its waiters first in, first out, which grants more than this).
\* The three handlers take and drop the mutex alike; the fair runs are those
\* of /api/generate (api.rs 191-329), streaming or not.
HlArriveGenerate(r) == HlArrive(r) /\ hl_req'[r].dialect = "generate"
HlNextGenerate ==
    \E r \in Reqs :
        \/ HlArriveGenerate(r)
        \/ HlLockForLoad(r)
        \/ HlLoadReturn(r)
        \/ HlModelId(r)
        \/ HlLockForGenerate(r)
        \/ HlGenerateReturn(r)
SpecLoadFair ==
    /\ InitLoad /\ [][HlNextGenerate]_vars
    /\ \A r \in Reqs :
         /\ WF_vars(HlLoadReturn(r)) /\ WF_vars(HlGenerateReturn(r))
         /\ WF_vars(HlLockForLoad(r)) /\ WF_vars(HlModelId(r))
         /\ WF_vars(HlLockForGenerate(r))

(***************************************************************************)
(* Properties of the gateway (SpecGateway).                                *)
(***************************************************************************)
Last(s) == s[Len(s)]
OkTexts(r) == SelectSeq(upstream[r], LAMBDA it : it.kind = "ok")
NonTerminal(r) == SelectSeq(frames[r], LAMBDA f : ~IsTerminal(f))
HasError(r) == \E i \in 1..Len(upstream[r]) : upstream[r][i].kind = "err"
Exhausted(r) == upstream[r] # <<>> /\ Last(upstream[r]).kind = "end"
InGenerate(r) == pc[r] = "in_call" /\ ~stream[r]

\* C1: among non-streaming requests at most one generate call is inside the
\* engine client at any time, and the request making it holds the engine mutex.
C1_OneGenerateInFlight ==
    /\ Cardinality({r \in Reqs : InGenerate(r)}) <= 1
    /\ \A r \in Reqs : InGenerate(r) => engine_lock = r

\* C1 witness: one non-streaming request is inside generate while another
\* non-streaming request waits for the mutex.
C1_Witness ==
    \E r, q \in Reqs :
        /\ r # q
        /\ InGenerate(r)
        /\ pc[q] = "wait_lock" /\ ~stream[q]

\* C2 (as claimed): while a streamed response is open and has read a chunk, the
\* request holds the engine mutex and no other request is inside an engine call.
C2_ChunkReadsUnderLock ==
    \A r \in Reqs :
        (pc[r] = "streaming" /\ upstream[r] # <<>>) =>
            /\ engine_lock = r
            /\ \A q \in Reqs \ {r} : pc[q] # "in_call"

\* C5: no frame ever follows a terminal frame, and a stream exhausted without
\* error has sent one frame per upstream chunk, all non-terminal, then exactly
\* one terminal frame, which is last.
C5_OneTerminalFrameLast ==
    \A r \in Reqs :
        /\ \A i \in 1..(Len(frames[r]) - 1) : ~IsTerminal(frames[r][i])
        /\ Exhausted(r) =>
             /\ Len(frames[r]) = Len(OkTexts(r)) + 1
             /\ IsTerminal(Last(frames[r]))

\* C5 witness: an OpenAI-dialect stream has been exhausted and closed after two chunks.
C5_Witness ==
    \E r \in Reqs :
        /\ pc[r] = "closed" /\ dialect[r] = "openai"
        /\ Exhausted(r) /\ Len(frames[r]) = 3

\* C6: once the upstream has yielded an error after k chunks, the error is the
\* last item read, the SSE stream is closed, and the caller has exactly the k
\* non-terminal frames and no terminal frame.
C6_ErrorEndsWithoutTerminal ==
    \A r \in Reqs :
        HasError(r) =>
            /\ Last(upstream[r]).kind = "err"
            /\ pc[r] = "closed"
            /\ Len(frames[r]) = Len(upstream[r]) - 1
            /\ \A i \in 1..Len(frames[r]) : ~IsTerminal(frames[r][i])

\* C6 witness: a stream that failed after one chunk or more.
C6_Witness ==
    \E r \in Reqs : HasError(r) /\ Len(upstream[r]) >= 2

\* C8: the non-terminal frames are, one for one and in order, the upstream
\* chunks read so far: the i-th carries the text of the i-th chunk.
C8_FramesFollowChunks ==
    \A r \in Reqs :
        /\ Len(NonTerminal(r)) = Len(OkTexts(r))
        /\ \A i \in 1..Len(OkTexts(r)) : frames[r][i].text = OkTexts(r)[i].text

\* C8 witness: two chunks with different texts have been forwarded.
C8_Witness ==
    \E r \in Reqs :
        /\ Len(OkTexts(r)) >= 2
        /\ OkTexts(r)[1].text # OkTexts(r)[2].text
        /\ Len(frames[r]) >= 2

(***************************************************************************)
(* Properties of handle resolution (SpecLoad).                             *)
(***************************************************************************)
HandlesOf(n) == {h \in DOMAIN engine_models : engine_models[h] = n}

\* C3 (as claimed): for every interleaving of requests naming the same model,
\* the backend performs at most one load of a name (a load answered with
\* success, each of which mints a handle) and so the name is bound to at most
\* one handle over the run.
C3_AtMostOneLoadPerName ==
    \A n \in Names : Cardinality(HandlesOf(n)) <= 1

\* C4 (as claimed): once a successful load has bound a name in LoadedModelsMap,
\* the handle that later requests resolve the name to never changes.
C4_BoundHandleNeverChanges ==
    [][\A n \in Names :
          loaded_models[n] # NoHandle => loaded_models'[n] = loaded_models[n]]_vars

(***************************************************************************)
(* Properties of the streamed text (SpecSse).                              *)
(***************************************************************************)
\* The non-empty texts of the non-terminal frames, in order; the fragments are
\* one character each, so this sequence is the concatenated text.
SseText ==
    LET nt == SelectSeq(sse_frames, LAMBDA f : ~IsTerminal(f) /\ f.text # "")
    IN [i \in 1..Len(nt) |-> nt[i].text]

\* C7 (as claimed): when a streamed response completes, the text of its
\* non-terminal frames, concatenated, is the text of all fragments the backend
\* sent, however the transport grouped the lines into byte chunks.
C7_StreamedTextIsComplete ==
    sse_state = "done" => SseText = SelectSeq(sse_sent, LAMBDA x : x \in Texts)

(***************************************************************************)
(* Properties of the supervisor (SpecServe).                               *)
(***************************************************************************)
\* C9: when run() has returned the failed-health-gate error, the process group
\* was sent SIGTERM and then SIGKILL before, and none of its processes runs.
C9_FailedGateKillsGroup ==
    srv_result = "err_health_gate" =>
        /\ srv_signals = <<"SIGTERM", "SIGKILL">>
        /\ ~group_alive

\* C9 witness: every probe failed and run() has returned the health-gate error.
C9_Witness ==
    /\ srv_result = "err_health_gate"
    /\ attempts = HealthAttempts
    /\ vllm_process

\* C10 (as claimed): whenever run() has returned after the backend was
\* spawned, the process group was sent SIGTERM and SIGKILL and is not alive.
C10_EveryExitKillsGroup ==
    (srv_pc = "returned" /\ vllm_process) =>
        /\ srv_signals = <<"SIGTERM", "SIGKILL">>
        /\ ~group_alive

\* C11: when a backend was spawned, the gateway's listener is bound only after
\* the health gate has observed a successful probe.
C11_ListenOnlyAfterHealthy ==
    (vllm_process /\ (listening \/ srv_pc \in {"server_new", "bind", "serving"}))
        => health_seen

\* C11 witness: the gateway listens with a spawned backend that took several
\* probes to answer.
C11_Witness ==
    /\ listening /\ vllm_process /\ health_seen
    /\ attempts >= 2

\* C12 (as claimed): whenever run() has returned after it started a teardown,
\* on the shutdown path and on the failed-health-gate path alike, the group
\* was sent SIGTERM then SIGKILL and then child.wait() was called.
C12_TeardownSignalsThenReaps ==
    (srv_pc = "returned" /\ kill_return # "none") =>
        /\ srv_signals = <<"SIGTERM", "SIGKILL">>
        /\ child_wait # "none"

\* C13: once run() has left the select! towards the teardown (shutdown signal
\* or server future Ok) it returns Ok, whether or not the reaping wait fails.
C13_ShutdownAlwaysCompletes ==
    (srv_pc = "teardown") ~> (srv_pc = "returned" /\ srv_result = "ok")

\* C13 witness: run() has returned Ok after a teardown whose wait failed.
C13_Witness ==
    /\ srv_pc = "returned" /\ srv_result = "ok"
    /\ kill_return = "shutdown" /\ child_wait = "failed"

(***************************************************************************)
(* Properties of the error answers.                                        *)
(***************************************************************************)
\* C14 (as claimed): an engine failure is answered with 404 when it is a
\* not-found error, with 503 when the backend could not be reached, and with
\* 500 when a reachable backend reported the failure.
C14_StatusFollowsFailure ==
    \A r \in Reqs :
        engine_error[r] # "none" =>
            response[r].status =
                IF ErrorOf(engine_error[r]) = "ModelNotFound" THEN 404
                ELSE IF engine_error[r] = "transport" THEN 503
                ELSE 500

\* C15: every error answer has the envelope of its dialect, flat on
\* /api/generate and /api/chat, nested on /v1/chat/completions, for load and
\* generation failures, streaming or not.
C15_EnvelopeFollowsDialect ==
    \A r \in Reqs :
        hl_response[r].status >= 400 =>
            hl_response[r].envelope =
                IF hl_req[r].dialect = "openai" THEN "nested" ELSE "flat"

\* C15 witness: a failed load answered nested on the OpenAI route and a failed
\* streaming generation answered flat on an Ollama route.
C15_Witness ==
    \E r, q \in Reqs :
        /\ hl_req[r].dialect = "openai" /\ hl_response[r].status = 500
        /\ hl_handle[r] = NoHandle /\ hl_response[r].envelope = "nested"
        /\ hl_req[q].dialect # "openai" /\ hl_req[q].stream
        /\ hl_handle[q] # NoHandle /\ hl_response[q] = HlError(hl_req[q].dialect, 500)

(***************************************************************************)
(* Properties of the engine clients (SpecEngine).                          *)
(***************************************************************************)
\* C16 (as claimed): health_check never returns an error, and a transport
\* failure, a body that is not JSON and a body whose availability field is
\* missing or not a boolean all give false.
C16_HealthNeverThrows ==
    ec_last.op = "health" =>
        /\ ec_last.result = "Ok"
        /\ (\/ ec_input.outcome = "transport"
            \/ ec_input.body \in {"not_json", "no_field", "field_not_bool"})
              => ~ec_last.flag

\* C17: on HttpEngineClient and MaxEngine, unload_model of an unknown handle
\* returns ModelNotFound without a backend call, a failed backend call returns
\* InferenceFailed, and the map loses the handle exactly when the call
\* succeeded; otherwise the map is as before.
C17_UnloadRemovesIffSuccess ==
    (ec_last.op = "unload" /\ ec_kind # "openai") =>
        LET h == ec_last.handle
            known == h \in DOMAIN ec_last.models_before
        IN /\ ~known => (ec_last.result = "ModelNotFound" /\ ~ec_last.called)
           /\ (known /\ ec_input.outcome # "ok") => ec_last.result = "InferenceFailed"
           /\ (known /\ ec_input.outcome = "ok") => ec_last.result = "Ok"
           /\ ec_loaded_models = IF ec_last.result = "Ok"
                                 THEN Remove(ec_last.models_before, h)
                                 ELSE ec_last.models_before
           /\ ec_next_handle = ec_last.next_before

\* C17 witness: an unload failed at the backend and the handle is still mapped.
C17_Witness ==
    /\ ec_last.op = "unload" /\ ec_last.result = "InferenceFailed"
    /\ ec_last.handle \in DOMAIN ec_loaded_models
    /\ Cardinality(DOMAIN ec_loaded_models) = 2

\* C18: on HttpEngineClient and MaxEngine, a failed load_model returns
\* ModelLoadFailed and leaves counter and map as they were; a successful one
\* returns the counter's value as a new handle, advances the counter by one and
\* adds exactly handle -> the model id the backend reported.
C18_LoadFrame ==
    (ec_last.op = "load" /\ ec_kind # "openai") =>
        IF ec_input.outcome = "ok"
        THEN /\ ec_last.result = "Ok"
             /\ ec_last.handle = ec_last.next_before
             /\ ec_last.handle \notin DOMAIN ec_last.models_before
             /\ ec_next_handle = ec_last.next_before + 1
             /\ ec_loaded_models = ec_last.models_before @@ (ec_last.handle :> ec_input.name)
        ELSE /\ ec_last.result = "ModelLoadFailed"
             /\ ec_next_handle = ec_last.next_before
             /\ ec_loaded_models = ec_last.models_before

\* C18 witness: a load failed after an earlier load had succeeded.
C18_Witness ==
    /\ ec_last.op = "load" /\ ec_last.result = "ModelLoadFailed"
    /\ ec_next_handle = 2 /\ DOMAIN ec_loaded_models = {1}

\* C19 (as claimed): the GenerateResponse of every successful generate call
\* has finished = true, whatever the implementation.
C19_GenerateIsTerminal ==
    (ec_last.op = "generate" /\ ec_last.result = "Ok") => ec_last.flag

\* C20 (as claimed): a chunk stream that ended without error is zero or more
\* chunks with finished = false, then exactly one with finished = true, last.
C20_StreamEndsWithFinished ==
    ec_stream.state = "ended" =>
        /\ ec_stream.items # <<>>
        /\ ec_stream.items[Len(ec_stream.items)].finished
        /\ \A i \in 1..(Len(ec_stream.items) - 1) : ~ec_stream.items[i].finished

(***************************************************************************)
(* Properties of the stream parsing (SpecSse).                             *)
(***************************************************************************)
\* C21 (as claimed): when, in a stream that has delivered text, the next byte
\* chunk is one whole line that is keep-alive noise, `data: ` with invalid JSON
\* or JSON without a text field, the engine client yields an empty-text chunk:
\* no error, no end of stream.
C21_NoiseYieldsEmptyChunk ==
    (/\ sse_state = "streaming"
     /\ sse_frames # <<>>
     /\ sse_wire # <<>>
     /\ \E x \in NoiseLines : Head(sse_wire) = LineOf(x))
        => ChunkToItem(sse_engine, Head(sse_wire)) = OkItem("")

\* C22: once the caller's connection has closed on an open streamed response,
\* no further upstream chunk is read for that request, its frames stay as
\* they were, and the request does not hold the engine mutex, so a request
\* waiting for the mutex can acquire it.
C22_DisconnectStopsReading ==
    /\ [](\A r \in Reqs : pc[r] = "dropped" => engine_lock # r)
    /\ [][\A r \in Reqs :
            pc[r] = "dropped" =>
                /\ upstream'[r] = upstream[r]
                /\ frames'[r] = frames[r]
                /\ pc'[r] = "dropped"]_vars

\* A response was dropped after a chunk, and afterwards another request took
\* the mutex and is inside its engine call.
C22_Witness ==
    \E r, q \in Reqs :
        /\ pc[r] = "dropped"
        /\ upstream[r] # <<>>
        /\ ~Exhausted(r)
        /\ q # r
        /\ engine_lock = q
        /\ pc[q] = "in_call"

(***************************************************************************)
(* Properties of the engine orchestrator (SpecOrchestrator).               *)
(***************************************************************************)
Compatible(engines, hw) == {i \in 1..Len(engines) : supports_hardware(engines[i], hw)}

\* C23: select_engine returns the first retained engine that supports the
\* hardware; when no retained engine supports it, the first retained engine;
\* and nothing only when the retained list is empty.
C23_SelectFirstCompatible ==
    orc_last.op = "select_engine" =>
        LET es == orc_last.before
            ok == Compatible(es, orc_hardware)
        IN  /\ ok # {} =>
                 orc_last.result = es[CHOOSE i \in ok : \A j \in ok : i <= j]
            /\ (ok = {} /\ es # <<>>) => orc_last.result = es[1]
            /\ orc_last.result = NoEngine <=> es = <<>>

\* The one retained engine does not support the hardware and is selected all
\* the same.
C23_Witness ==
    /\ orc_last.op = "select_engine"
    /\ orc_last.before # <<>>
    /\ Compatible(orc_last.before, orc_hardware) = {}
    /\ orc_last.result = orc_last.before[1]

\* C24 (as claimed): after initialize() the retained list is exactly the
\* candidates vLLM, MAX, llama.cpp that support the hardware, each once, in
\* that order.
C24_RetainedIsCompatibleInOrder ==
    (orc_kind = "hyperllama" /\ orc_last.op = "initialize") =>
        orc_engines = SelectSeq(<<"vllm", "max", "llama_cpp">>,
                                LAMBDA e : supports_hardware(e, orc_hardware))

C26_NonStreamingIsDoneWithDuration ==
    \A r \in Reqs :
        (/\ pc[r] = "closed"
         /\ ~stream[r]
         /\ dialect[r] \in {"generate", "chat"}
         /\ response[r].status = 200)
            => /\ response[r].done
               /\ response[r].has_duration

\* One non-streaming /api/generate and one non-streaming /api/chat were
\* answered successfully.
C26_Witness ==
    \E r, q \in Reqs :
        /\ pc[r] = "closed" /\ ~stream[r] /\ dialect[r] = "generate"
        /\ response[r].status = 200
        /\ pc[q] = "closed" /\ ~stream[q] /\ dialect[q] = "chat"
        /\ response[q].status = 200

(***************************************************************************)
(* Properties of LoadedModelsMap (SpecLoad).                               *)
(***************************************************************************)
\* C27: every handle stored in LoadedModelsMap, and every handle a request
\* has resolved, is a key of the engine's handle -> model id map, so the
\* get_model_id lookup after handle resolution never misses and no request
\* is answered 404.
C27_ResolvedHandleIsKnown ==
    /\ \A n \in Names :
          loaded_models[n] # NoHandle => loaded_models[n] \in DOMAIN engine_models
    /\ \A r \in Reqs :
          /\ hl_handle[r] # NoHandle => get_model_id(hl_handle[r]) # NoneVal
          /\ hl_response[r].status # 404

\* A request resolved its name by a hit in LoadedModelsMap and its model-id
\* lookup succeeded.
C27_Witness ==
    \E r \in Reqs :
        /\ hl_pc[r] = "wait_gen"
        /\ hl_handle[r] = loaded_models[hl_req[r].name]
        /\ load_calls[hl_req[r].name] = 1
        /\ \E q \in Reqs \ {r} :
              hl_req[q].name = hl_req[r].name /\ hl_handle[q] = hl_handle[r]

\* C28: the names bound in LoadedModelsMap only grow: a name is bound only
\* when the engine holds a handle from a successful load of it, and a bound
\* name is never unbound.
C28_LoadedNamesOnlyGrow ==
    /\ [](\A n \in Names : loaded_models[n] # NoHandle => HandlesOf(n) # {})
    /\ [][\A n \in Names :
            loaded_models[n] # NoHandle => loaded_models'[n] # NoHandle]_vars

\* A load of a name failed after the name had been bound, and the name is
\* still bound.
C28_Witness ==
    \E r \in Reqs :
        /\ hl_pc[r] = "closed"
        /\ hl_handle[r] = NoHandle
        /\ hl_response[r].status = 500
        /\ loaded_models[hl_req[r].name] # NoHandle

\* C29: on VllmOpenAIEngine load_model and unload_model are no-ops: neither
\* sends a request nor changes the client, load_model returns Ok with the
\* handle 0 for every path, and unload_model returns Ok for every handle.
C29_OpenAILoadUnloadAreNoOps ==
    (ec_kind = "openai" /\ ec_last.op \in {"load", "unload"}) =>
        /\ ec_last.result = "Ok"
        /\ ~ec_last.called
        /\ ec_last.op = "load" => ec_last.handle = 0
        /\ ec_loaded_models = ec_last.models_before
        /\ ec_next_handle = ec_last.next_before

\* A load of the second model name returned the placeholder handle.
C29_Witness ==
    /\ ec_kind = "openai"
    /\ ec_last.op = "load"
    /\ ec_input.name = "m2"
    /\ ec_last.handle = 0
    /\ ec_last.result = "Ok"

(***************************************************************************)
(* Properties of the health gate's wait (SpecServeFair).                   *)
(***************************************************************************)
InAwaitHealthy == srv_pc \in {"health_wait", "probe_pending"}

\* What wait_for_vllm_ready guarantees whenever it returns: at most
\* HealthAttempts probes were made, none after the first success, and false
\* was returned only after HealthAttempts probes without a success.
AwaitHealthySafety ==
    /\ attempts <= HealthAttempts
    /\ health_seen => ~InAwaitHealthy
    /\ kill_return = "gate" => (attempts = HealthAttempts /\ ~health_seen)

\* C30 (as claimed): wait_for_vllm_ready always terminates, after at most
\* 120 probes: it returns true at the first probe answered with a success
\* status and makes no further probe, and returns false exactly when all 120
\* probes failed.
C30_AwaitHealthyTerminates ==
    /\ []AwaitHealthySafety
    /\ InAwaitHealthy ~> ~InAwaitHealthy

(***************************************************************************)
(* Properties of the terminal frame (SpecGateway).                         *)
(***************************************************************************)
\* C31: on /api/generate and /api/chat the terminal frame of a streamed
\* response has the empty text, and its eval_count is the number of
\* non-terminal frames emitted before it in that response.
C31_TerminalFrameCountsChunks ==
    \A r \in Reqs :
        dialect[r] \in {"generate", "chat"} =>
            \A i \in 1..Len(frames[r]) :
                IsTerminal(frames[r][i]) =>
                    /\ frames[r][i].text = ""
                    /\ frames[r][i].eval_count =
                          Cardinality({j \in 1..(i - 1) : ~IsTerminal(frames[r][j])})

\* A chat stream ended after two chunks, and a generate stream ended with none.
C31_Witness ==
    \E r, q \in Reqs :
        /\ dialect[r] = "chat" /\ Len(frames[r]) = 3
        /\ IsTerminal(frames[r][3]) /\ frames[r][3].eval_count = 2
        /\ dialect[q] = "generate" /\ Len(frames[q]) = 1
        /\ IsTerminal(frames[q][1]) /\ frames[q][1].eval_count = 0

(***************************************************************************)
(* Properties of chat prompt rendering (SpecPrompt).                       *)
(***************************************************************************)
\* C32 (as claimed): a prompt rendered from messages[] uses the Llama-3 header
\* format when the lower-cased model name contains "llama" and the
\* "Role: content" entries joined by a blank line otherwise.
C32_PromptFollowsModelFamily ==
    chat_prompt.kind = "prompt" =>
        chat_prompt.pieces =
            IF contains(to_lowercase(chat_req.model), <<"l", "l", "a", "m", "a">>)
            THEN Llama3Template(chat_req.messages)
            ELSE SimpleChatTemplate(chat_req.messages)

(***************************************************************************)
(* Properties of the serve settings (SpecConfig).                          *)
(***************************************************************************)
\* C33 (as claimed): the port served is the value of the highest-priority
\* source that gives one, in the order --port, ./vllama.toml, user config,
\* built-in default; and the loaded Config has the value of ./vllama.toml
\* whenever that file gives one, also when it equals the default.
C33_HighestPrioritySourceWins ==
    LET files == IF cfg_sources.local.key.set THEN cfg_sources.local.key.port
                 ELSE IF cfg_sources.user.key.set THEN cfg_sources.user.key.port
                 ELSE default_port
    IN  /\ cfg_state.pc # "start" => cfg_state.config_port = files
        /\ cfg_state.pc = "serve" =>
              cfg_state.port = IF cfg_sources.cli.set THEN cfg_sources.cli.port ELSE files

\* C34: a failed load answers the request with an error at once, leaves
\* LoadedModelsMap as it was, and the request never reaches the generate
\* call; a request arriving for a name that is not bound goes to the load.
C34_FailedLoadBindsNothing ==
    /\ [](\A r \in Reqs :
            /\ hl_pc[r] \in {"wait_id", "wait_gen", "in_call"} => hl_handle[r] # NoHandle
            /\ hl_response[r].status = 200 => hl_handle[r] # NoHandle)
    /\ [][\A r \in Reqs :
            /\ (hl_pc[r] = "loading" /\ hl_response'[r].status # 0) =>
                  /\ hl_pc'[r] = "closed"
                  /\ hl_response'[r].status = 500
                  /\ hl_handle'[r] = NoHandle
                  /\ loaded_models' = loaded_models
                  /\ engine_models' = engine_models
            /\ (hl_pc[r] = "loading" /\ hl_pc'[r] # "loading" /\ hl_response'[r].status = 0) =>
                  /\ hl_handle'[r] # NoHandle
                  /\ loaded_models'[hl_req[r].name] = hl_handle'[r]
            /\ (hl_pc[r] = "idle" /\ hl_pc'[r] # "idle"
                  /\ loaded_models[hl_req'[r].name] = NoHandle) =>
                  hl_pc'[r] = "wait_load"]_vars

\* A load of a name failed at the backend, the name stayed unbound, and a
\* later request for the same name is loading it again.
C34_Witness ==
    \E r, q \in Reqs :
        /\ hl_pc[r] = "closed" /\ hl_handle[r] = NoHandle
        /\ hl_response[r].status = 500
        /\ q # r /\ hl_req[q].name = hl_req[r].name
        /\ hl_pc[q] = "loading"
        /\ loaded_models[hl_req[r].name] = NoHandle
        /\ load_calls[hl_req[r].name] = 1

\* C35: no handler takes the engine mutex while it holds it, the holder is
\* always a handler inside a backend call, and every way out of a handler
\* (answer, failed load, unknown handle, failed generation) leaves the mutex
\* free of it; so when every backend call returns, each handler waiting for
\* the mutex gets it and every request that arrived is answered.
HlWaiting(r) == hl_pc[r] \in {"wait_load", "wait_id", "wait_gen"}
C35_MutexAlwaysReleased ==
    /\ [](\A r \in Reqs : hl_lock = r <=> hl_pc[r] \in {"loading", "in_call"})
    /\ [][\A r \in Reqs : (hl_lock' = r /\ hl_lock # r) =>
                            (hl_lock = NoOwner /\ HlWaiting(r))]_vars
    /\ \A r \in Reqs : HlWaiting(r) ~> ~HlWaiting(r)
    /\ \A r \in Reqs : hl_pc[r] # "idle" ~> (hl_pc[r] = "closed" /\ hl_lock # r)

\* One handler waits for the mutex that another holds, after a third way out
\* (a failed call answered 500) was taken.
C35_Witness ==
    \E r, q \in Reqs :
        /\ r # q
        /\ hl_pc[r] = "wait_gen"
        /\ hl_lock = q
        /\ hl_pc[q] = "loading"

(***************************************************************************)
(* Properties of /api/pull (SpecPull).                                     *)
(***************************************************************************)
HasSuccessFrame(r) ==
    \E i \in 1..Len(pl_run[r].frames) : pl_run[r].frames[i].status = "success"

\* C36: a streaming pull shows a "success" frame only once its model was
\* downloaded, loaded and inserted into LoadedModelsMap; a failed download or
\* load shows none.
C36_SuccessOnlyAfterLoad ==
    \A r \in Reqs :
        (pl_req[r].stream /\ HasSuccessFrame(r)) =>
            /\ pl_run[r].result = "ok"
            /\ pl_shared.loaded_models[pl_req[r].name] # NoHandle

\* C37: after the progress channel was closed the pull stream shows one
\* "success" frame, its last, and no more.
C37_OneFinalSuccess ==
    \A r \in Reqs :
        /\ ClosedPolls(r) <= 1
        /\ HasSuccessFrame(r) => Last(pl_run[r].frames) = SuccessEvent

\* C39: a pull of a name that LoadedModelsMap holds is answered success by
\* the handler's first step: no download, no mutex, no load_model call, the
\* map as it was, nothing left running.
C39_LoadedNameAnswersAtOnce ==
    [][\A r \in Reqs :
          (/\ pl_run[r].pc = "idle"
           /\ pl_run'[r].pc # "idle"
           /\ pl_shared.loaded_models[pl_req'[r].name] # NoHandle) =>
              /\ pl_run'[r] = [PullIdleRun EXCEPT !.pc = "closed", !.response = PullSuccess]
              /\ pl_shared' = pl_shared]_vars

\* A pull answered at once for a name another pull loaded: still one
\* download and one load_model call in all.
C39_Witness ==
    \E r, q \in Reqs :
        /\ r # q
        /\ pl_req[r].name = pl_req[q].name
        /\ pl_run[q].result = "ok"
        /\ pl_run[r] = [PullIdleRun EXCEPT !.pc = "closed", !.response = PullSuccess]
        /\ pl_shared.downloads = 1
        /\ pl_shared.load_calls = 1

\* C38: the handles one HttpEngineClient (or MaxEngine) has minted are 1, then
\* ever larger values: each successful load_model returns a handle above every
\* handle returned before, the live handles are minted ones, and a handle whose
\* model was unloaded is not minted again.
C38_HandlesStrictlyIncrease ==
    ec_kind # "openai" =>
        /\ \A i, j \in 1..Len(ec_minted) : i < j => ec_minted[i] < ec_minted[j]
        /\ ec_minted # <<>> => ec_minted[1] = 1
        /\ \A h \in DOMAIN ec_loaded_models : \E i \in 1..Len(ec_minted) : ec_minted[i] = h
        /\ \A i \in 1..Len(ec_minted) : ec_minted[i] < ec_next_handle
        /\ (ec_last.op = "load" /\ ec_last.result = "Ok") =>
              /\ ec_last.handle = Last(ec_minted)
              /\ \A i \in 1..(Len(ec_minted) - 1) : ec_minted[i] < ec_last.handle

\* A second load succeeded after the first handle's model was unloaded, and
\* got handle 2.
C38_Witness ==
    /\ ec_kind # "openai"
    /\ ec_minted = <<1, 2>>
    /\ 1 \notin DOMAIN ec_loaded_models
    /\ ec_last.op = "load"
    /\ ec_last.result = "Ok"
    /\ ec_last.handle = 2

====
